---- MODULE Spec2Model ----
(***************************************************************************)
(* QuestAI planning core: orchestrator.plan and AgenticController.run.     *)
(*                                                                         *)
(* Python values are encoded as follows.                                   *)
(*   Optional[x]      None is <<>>, a present value v is <<v>>             *)
(*   dict             a function whose domain is the set of keys; both {}  *)
(*                    and a None dict are the function with empty domain   *)
(*                    (the code only tests them for truthiness)            *)
(*   list             a sequence                                           *)
(*   float scores     integers scaled by 10 (2.5 is 25)                    *)
(*   f-strings        tuples <<text, value, ...>>                          *)
(***************************************************************************)
EXTENDS Integers, Sequences, FiniteSets, TLC

VARIABLES
    env,            \* process environment: USE_AGENTIC and whether agentic imported
    req,            \* the GroupRequest being planned
    pc,             \* position of the request: entry, deciding, exited, done, raised
    step,           \* loop variable of `for step in range(1, 8)`; 0 before the loop
    state,          \* ControllerState dict of AgenticController.run
    action_log,     \* action_log list of AgenticController.run
    default_plan,   \* default_plan local of AgenticController.run (Optional)
    response,       \* value returned by AgenticController.run (Optional)
    plan_result,    \* value returned by orchestrator.plan (Optional)
    path,           \* which branch orchestrator.plan took: none, agentic, fixed
    calls,          \* trace of collaborator calls made so far, in order
    last,           \* how the last iteration ended, and whether its reply was malformed
    fx              \* a call of a function outside plan(): its name, arguments, result

vars == <<env, req, pc, step, state, action_log, default_plan, response,
          plan_result, path, calls, last, fx>>

(***************************************************************************)
(* Bounds of the model.                                                    *)
(***************************************************************************)
MaxUsers == 2       \* longest user_ids list of a request
ArgSteps == 2       \* iterations of one run whose reply may carry non-empty args

(***************************************************************************)
(* Python helpers.                                                         *)
(***************************************************************************)
None == <<>>
Some(v) == <<v>>
EmptyDict == [k \in {} |-> 0]
Truthy(d) == DOMAIN d # {}
Get(d, k, default) == IF k \in DOMAIN d THEN d[k] ELSE default
Put(d, k, v) == [y \in DOMAIN d \cup {k} |-> IF y = k THEN v ELSE d[y]]
\* a or b, for Optional values (an absent value is falsy)
OrElse(a, b) == IF a # None THEN a ELSE b

\* str.strip() on the strings the model uses
Strip(s) ==
    CASE s = " live music tonight " -> "live music tonight"
      [] s = " Cambridge, MA " -> "Cambridge, MA"
      [] s = "   " -> ""
      [] s = " Music " -> "Music"
      [] s = " nightlife " -> "nightlife"
      [] s = " FREE " -> "FREE"
      [] s = " Eventbrite " -> "Eventbrite"
      [] s = " Cambridge " -> "Cambridge"
      [] OTHER -> s

\* str.lower() on the strings the model uses
Lower(s) ==
    CASE s = "Indie" -> "indie"
      [] s = "Music" -> "music"
      [] s = "MUSIC" -> "music"
      [] s = "FREE" -> "free"
      [] s = "Eventbrite" -> "eventbrite"
      [] s = "Cambridge" -> "cambridge"
      [] s = "Market" -> "market"
      [] s = "K1" -> "k1"
      [] OTHER -> s

\* [item.lower() for item in items]
LowerAll(s) == [i \in DOMAIN s |-> Lower(s[i])]

RECURSIVE Flatten(_)
Flatten(ss) == IF ss = <<>> THEN <<>> ELSE Head(ss) \o Flatten(Tail(ss))

Range(s) == {s[i] : i \in DOMAIN s}

(***************************************************************************)
(* Collaborators of the core: TasteSource, IntentExtractor, TasteMerger,   *)
(* CandidateSource and Ranker.                                             *)
(***************************************************************************)
Users == <<"u1", "u2", "u3", "u4">>

\* tool_get_user_taste(uid): a profile for every id, never fails
tool_get_user_taste(uid) ==
    CASE uid = "u1" ->
           [user_id |-> "u1", likes |-> <<"indie">>, vibes |-> <<"music", "chill">>,
            budget_max |-> Some(20), distance_km_max |-> Some(5), tags |-> <<"live">>]
      [] uid = "u2" ->
           [user_id |-> "u2", likes |-> <<"Indie", "hiking">>, vibes |-> <<"outdoors">>,
            budget_max |-> Some(50), distance_km_max |-> None, tags |-> <<>>]
      [] OTHER ->
           [user_id |-> uid, likes |-> <<>>, vibes |-> <<>>,
            budget_max |-> None, distance_km_max |-> None, tags |-> <<>>]

\* ListenerAgent.run(text): the Intent of a request text, never fails
ListenerRun(text) ==
    IF Strip(text) = "live music tonight"
    THEN [primary_vibes |-> <<"music">>, energy_level |-> "high",
          time_hint |-> Some("tonight"), budget_hint |-> None]
    ELSE [primary_vibes |-> <<"chill">>, energy_level |-> "medium",
          time_hint |-> None, budget_hint |-> None]

Count(x, s) == Cardinality({i \in DOMAIN s : s[i] = x})

\* most frequent element of a non-empty sequence, ties to the first seen
MostFrequent(s) ==
    LET best == CHOOSE n \in 1..Len(s) :
                    \A i \in DOMAIN s : Count(s[i], s) <= n /\ \E j \in DOMAIN s : Count(s[j], s) = n
        first == CHOOSE i \in DOMAIN s :
                    /\ Count(s[i], s) = best
                    /\ \A j \in 1..(i - 1) : Count(s[j], s) < best
    IN  s[first]

\* minimum of the present values of a sequence of Optionals, None if none
MinPresent(opts) ==
    LET present == {opts[i][1] : i \in {j \in DOMAIN opts : opts[j] # None}}
    IN  IF present = {} THEN None
        ELSE Some(CHOOSE m \in present : \A x \in present : m <= x)

\* union in first-seen order, duplicates dropped ignoring case
RECURSIVE DedupCI(_, _)
DedupCI(s, seen) ==
    IF s = <<>> THEN <<>>
    ELSE IF Lower(Head(s)) \in seen THEN DedupCI(Tail(s), seen)
    ELSE <<Head(s)>> \o DedupCI(Tail(s), seen \cup {Lower(Head(s))})

\* tool_merge_tastes(tastes): the group profile of a list of taste profiles
tool_merge_tastes(tastes) ==
    LET allVibes == Flatten([i \in DOMAIN tastes |-> tastes[i].vibes])
    IN  [merged_vibe |-> IF allVibes = <<>> THEN "chill" ELSE MostFrequent(allVibes),
         budget_cap |-> MinPresent([i \in DOMAIN tastes |-> tastes[i].budget_max]),
         distance_cap |-> MinPresent([i \in DOMAIN tastes |-> tastes[i].distance_km_max]),
         liked_keywords |-> DedupCI(Flatten([i \in DOMAIN tastes |-> tastes[i].likes]), {}),
         tag_keywords |-> DedupCI(Flatten([i \in DOMAIN tastes |-> tastes[i].tags]), {})]

\* the catalog the CandidateSource draws from
Catalog ==
    << [title |-> "Jazz Night", vibe |-> "Music", price |-> Some("$"),
        tags |-> <<"indie", "live">>, distance_km |-> Some(3), source |-> "eventbrite"],
       [title |-> "River Walk", vibe |-> "outdoors", price |-> Some("free"),
        tags |-> <<"hiking", "chill">>, distance_km |-> Some(8), source |-> "google_places"],
       [title |-> "Silent Disco", vibe |-> "music", price |-> Some("$$$"),
        tags |-> <<"dance">>, distance_km |-> None, source |-> "eventbrite"] >>

\* tool_find_activities(query): the candidates for a query, possibly none
tool_find_activities(query) ==
    LET vibe == Lower(Get(query, "vibe", ""))
        Match(e) == Lower(e.vibe) = vibe \/ vibe \in Range(LowerAll(e.tags))
    IN  SelectSeq(Catalog, Match)

PriceLevel(band) ==
    CASE band = "free" -> 0 [] band = "$" -> 1 [] band = "$$" -> 2
      [] band = "$$$" -> 3 [] band = "$$$$" -> 4

\* mutant: a cap on a boundary falls into the level above
BudgetLevel_Exclusive(cap) ==
    IF cap < 0 THEN 0 ELSE IF cap < 20 THEN 1 ELSE IF cap < 45 THEN 2
    ELSE IF cap < 75 THEN 3 ELSE 4

BudgetLevel(cap) ==
    IF cap <= 0 THEN 0 ELSE IF cap <= 20 THEN 1 ELSE IF cap <= 45 THEN 2
    ELSE IF cap <= 75 THEN 3 ELSE 4

\* the keywords of kws that are among the tags, ignoring case, in kws order
Overlap(kws, tags) ==
    SelectSeq(kws, LAMBDA k : Lower(k) \in Range(LowerAll(tags)))

\* group_score (times 10) and reasons of one candidate against a merged profile
ScoreCard(merged, c) ==
    LET vibe == Lower(Get(merged, "vibe", ""))
        ctags == Range(LowerAll(c.tags))
        exact == vibe # "" /\ Lower(c.vibe) = vibe
        tagged == vibe # "" /\ ~exact /\ vibe \in ctags
        liked == Overlap(Get(merged, "liked_keywords", <<>>), c.tags)
        tagkw == Overlap(Get(merged, "tag_keywords", <<>>), c.tags)
        cap == Get(merged, "budget_cap", None)
        budget == cap # None /\ c.price # None
        fits == budget /\ PriceLevel(c.price[1]) <= BudgetLevel(cap[1])
        dcap == Get(merged, "distance_cap", None)
        dist == dcap # None /\ c.distance_km # None
        near == dist /\ c.distance_km[1] <= dcap[1]
    IN  [title |-> c.title, vibe |-> c.vibe, price |-> c.price, source |-> c.source,
         group_score |->
             (IF exact THEN 25 ELSE 0) + (IF tagged THEN 15 ELSE 0)
             + 12 * Len(liked) + 10 * Len(tagkw)
             + (IF budget THEN (IF fits THEN 10 ELSE -10) ELSE 0)
             + (IF dist THEN (IF near THEN 10 ELSE -10) ELSE 0),
         reasons |->
             (IF exact THEN << <<"matches your group's vibe", vibe>> >> ELSE <<>>)
             \o (IF tagged THEN << <<"tagged with", vibe>> >> ELSE <<>>)
             \o [i \in DOMAIN liked |-> <<"liked", liked[i]>>]
             \o [i \in DOMAIN tagkw |-> <<"tag", tagkw[i]>>]
             \o (IF fits THEN << <<"within budget">> >> ELSE <<>>)
             \o (IF near THEN << <<"nearby">> >> ELSE <<>>)]

\* insert a card after every card whose score is at least as high (stable)
RECURSIVE InsertCard(_, _)
InsertCard(card, sorted) ==
    IF sorted = <<>> THEN <<card>>
    ELSE IF Head(sorted).group_score >= card.group_score
         THEN <<Head(sorted)>> \o InsertCard(card, Tail(sorted))
         ELSE <<card>> \o sorted

RECURSIVE SortCards(_)
SortCards(cards) ==
    IF cards = <<>> THEN <<>>
    ELSE InsertCard(cards[Len(cards)], SortCards(SubSeq(cards, 1, Len(cards) - 1)))

\* WriterAgent.run(p_out): the plan cards, by descending group_score
WriterRun(p_out) ==
    SortCards([i \in DOMAIN p_out.raw_candidates |->
                  ScoreCard(p_out.merged, p_out.raw_candidates[i])])

(***************************************************************************)
(* Requests, environment and StepReasoner replies.                         *)
(***************************************************************************)
UserIdLists == {SubSeq(Users, 1, n) : n \in 0..MaxUsers}

Requests ==
    {[query_text |-> "", user_ids |-> u, location_hint |-> None, time_window |-> Some("   ")]
        : u \in {ids \in UserIdLists : Len(ids) # 1}}
    \cup
    {[query_text |-> " live music tonight ", user_ids |-> u,
      location_hint |-> Some(" Cambridge, MA "), time_window |-> Some("sat 5pm")]
        : u \in {ids \in UserIdLists : Len(ids) <= 1}}

Environments ==
    [USE_AGENTIC : {None, Some("0"), Some("1"), Some("true")}, agentic_plan : BOOLEAN]

\* args of a reply: absent (missing, None or {}), a map, or a string
NoUserIds == [shape |-> "absent", val |-> <<>>]
NoOverrides == [shape |-> "absent", val |-> EmptyDict]
NoArgs == [shape |-> "absent", user_ids |-> NoUserIds, overrides |-> NoOverrides]
ArgsMap(u, o) == [shape |-> "map", user_ids |-> u, overrides |-> o]
ArgsStr == [shape |-> "str", user_ids |-> NoUserIds, overrides |-> NoOverrides]

WellFormedArgs ==
    {NoArgs,
     ArgsMap([shape |-> "list", val |-> <<"u2">>], NoOverrides),
     ArgsMap(NoUserIds, [shape |-> "map", val |-> [vibe |-> "outdoors", location |-> "Somerville"]])}

KnownActions == {"get_tastes", "merge_tastes", "find_activities", "finalize"}

\* action of a reply: absent (missing, None, "" or another falsy value), a
\* string, or a non-empty list holding a string
NoReply == [action |-> <<>>, args |-> NoArgs]

WellFormedReplies ==
    {[action |-> <<"str", a>>, args |-> g]
        : a \in KnownActions \cup {"bogus_action"}, g \in WellFormedArgs}

\* replies whose action or args are not of the expected shape
MalformedReplies ==
    {[action |-> <<"str", "get_tastes">>, args |-> ArgsStr],
     [action |-> <<"str", "get_tastes">>,
      args |-> ArgsMap([shape |-> "int", val |-> <<>>], NoOverrides)],
     [action |-> <<"str", "merge_tastes">>, args |-> ArgsStr],
     [action |-> <<"str", "merge_tastes">>,
      args |-> ArgsMap(NoUserIds, [shape |-> "str", val |-> EmptyDict])],
     [action |-> <<"list", "finalize">>, args |-> NoArgs]}

Replies == {NoReply} \cup WellFormedReplies \cup MalformedReplies

\* the args of a reply change what its action does
Effective(reply) ==
    \/ /\ reply.action = <<"str", "get_tastes">>
       /\ reply.args.user_ids.shape = "list"
    \/ /\ reply.action = <<"str", "merge_tastes">>
       /\ reply.args.overrides.shape = "map"

(***************************************************************************)
(* AgenticController.run                                                   *)
(***************************************************************************)
\* (opt or default) for an Optional string: None and "" are falsy
StrOr(opt, default) == IF opt = None \/ opt = Some("") THEN default ELSE opt[1]

Entry(text) == <<text>>
EntryN(text, n) == <<text, n>>

\* mutant: an entry the log already holds is not added again
LogAppend_Dedup(log, entry) == IF entry \in Range(log) THEN log ELSE Append(log, entry)

\* action_log.append(entry)
LogAppend(log, entry) == Append(log, entry)

\* mutant: only the first user's profile is fetched
Fetch_FirstOnly(uids) ==
    [i \in DOMAIN uids \cap {1} |-> tool_get_user_taste(uids[i])]

Fetch(uids) == [i \in DOMAIN uids |-> tool_get_user_taste(uids[i])]
FetchCalls(uids) == [i \in DOMAIN uids |-> <<"taste", uids[i]>>]

PlanResponse(query, vibe, energy, cards, log) ==
    [query_normalized |-> query, merged_vibe |-> vibe, energy_profile |-> energy,
     candidates |-> cards, action_log |-> log]

\* the ControllerState seeded from the request and the Listener output
SeedState(r) ==
    [query |-> Strip(r.query_text),
     user_ids |-> r.user_ids,
     location |-> Strip(StrOr(r.location_hint, "Boston, MA")),
     time_window |-> LET w == Strip(StrOr(r.time_window, ""))
                     IN  IF w = "" THEN None ELSE Some(w),
     listener |-> ListenerRun(r.query_text),
     tastes |-> <<>>,
     merged |-> EmptyDict,
     raw_candidates |-> <<>>,
     observations |-> <<>>]

\* mutant: the vibe of the merged tastes comes first, the Intent's is the fallback
TopVibe_TasteFirst(listener, merged) ==
    IF "merged_vibe" \in DOMAIN merged THEN merged["merged_vibe"]
    ELSE listener.primary_vibes[1]

\* (listener.primary_vibes or [merged.get("merged_vibe", "chill")])[0]
TopVibe(listener, merged) ==
    IF listener.primary_vibes # <<>> THEN listener.primary_vibes[1]
    ELSE Get(merged, "merged_vibe", "chill")

\* mutant: the loop runs one iteration more
LoopRange_OneMore == 1..8

\* the range of `for step in range(1, 8)`
LoopRange == 1..7

\* mutant: the fallback reuses the tastes already held instead of fetching
FallbackUserIds_HeldTastes(r, st) == IF st.tastes # <<>> THEN <<>> ELSE r.user_ids

\* mutant: a request naming no user is planned for a stand-in user
FallbackUserIds_StandIn(r, st) == IF r.user_ids = <<>> THEN <<"u1">> ELSE r.user_ids

\* the users whose tastes the fallback fetches: `for uid in req.user_ids`
FallbackUserIds(r, st) == r.user_ids

\* mutant: the fallback takes the vibe of the merged tastes, not the Intent's
FallbackMerged_TasteVibe(r, st) ==
    LET m0 == tool_merge_tastes(Fetch(FallbackUserIds(r, st)))
        m1 == Put(m0, "location", st.location)
        m2 == Put(m1, "time_window", OrElse(st.time_window, st.listener.time_hint))
        m3 == Put(m2, "vibe", m2["merged_vibe"])
    IN  Put(m3, "energy_level", st.listener.energy_level)

\* mutant: the fallback keeps a merged profile the run already holds
FallbackMerged_HeldProfile(r, st) ==
    IF Truthy(st.merged) THEN st.merged
    ELSE LET m0 == tool_merge_tastes(Fetch(FallbackUserIds(r, st)))
             m1 == Put(m0, "location", st.location)
             m2 == Put(m1, "time_window", OrElse(st.time_window, st.listener.time_hint))
             m3 == Put(m2, "vibe", TopVibe(st.listener, m2))
         IN  Put(m3, "energy_level", st.listener.energy_level)

\* the merged profile of the no-action fallback
FallbackMerged(r, st) ==
    LET m0 == tool_merge_tastes(Fetch(FallbackUserIds(r, st)))
        m1 == Put(m0, "location", st.location)
        m2 == Put(m1, "time_window", OrElse(st.time_window, st.listener.time_hint))
        m3 == Put(m2, "vibe", TopVibe(st.listener, m2))
    IN  Put(m3, "energy_level", st.listener.energy_level)

\* mutant: the fallback logs the Writer before the Planner
DefaultPlan_WriterBeforePlanner(r, st, log) ==
    LET merged == FallbackMerged(r, st)
        raw == tool_find_activities(merged)
        cards == WriterRun([merged |-> merged, raw_candidates |-> raw])
    IN  PlanResponse(st.query, Get(merged, "vibe", "chill"),
                     Get(merged, "energy_level", "medium"), cards,
                     log \o <<EntryN("Writer: scored candidates", Len(cards)),
                              Entry("Planner: merged tastes & fetched activities (fallback)")>>)

\* the plan built when the reply holds no action
DefaultPlan(r, st, log) ==
    LET merged == FallbackMerged(r, st)
        raw == tool_find_activities(merged)
        cards == WriterRun([merged |-> merged, raw_candidates |-> raw])
    IN  PlanResponse(st.query, Get(merged, "vibe", "chill"),
                     Get(merged, "energy_level", "medium"), cards,
                     log \o <<Entry("Planner: merged tastes & fetched activities (fallback)"),
                              EntryN("Writer: scored candidates", Len(cards))>>)

\* the collaborator calls of the fallback, in order
DefaultPlanCalls(r, st) ==
    FetchCalls(FallbackUserIds(r, st)) \o << <<"merge">>, <<"find">>, <<"writer">> >>

\* mutant: an override counts as soon as its key is there, empty or not
Override_KeyPresent(overrides, k) ==
    IF k \in DOMAIN overrides THEN Some(overrides[k]) ELSE None

\* overrides.get(k) as an Optional: a missing key and "" are falsy
Override(overrides, k) ==
    IF k \in DOMAIN overrides /\ overrides[k] # "" THEN Some(overrides[k]) ELSE None

\* the merged profile of merge_tastes, with the controller's overrides
MergeTastesMerged(st, tastes, overrides) ==
    LET m0 == tool_merge_tastes(tastes)
        m1 == Put(m0, "location", OrElse(Override(overrides, "location"), Some(st.location))[1])
        m2 == Put(m1, "time_window",
                  OrElse(Override(overrides, "time_window"),
                         OrElse(st.time_window, st.listener.time_hint)))
        m3 == Put(m2, "vibe",
                  OrElse(Override(overrides, "vibe"), Some(TopVibe(st.listener, m2)))[1])
    IN  Put(m3, "energy_level",
            OrElse(Override(overrides, "energy_level"), Some(st.listener.energy_level))[1])

\* merge_tastes precondition: `if not state["tastes"]`
NeedsTastes(st) == st.tastes = <<>>

\* mutant: find_activities never builds the missing merged profile
NeedsMerged_Never(st) == FALSE

\* find_activities precondition: `if not state.get("merged")`
NeedsMerged(st) == ~Truthy(st.merged)

\* the merged profile find_activities builds when none is held
FindActivitiesMerged(st) ==
    LET m0 == tool_merge_tastes(st.tastes)
        m1 == Put(m0, "location", st.location)
        m2 == Put(m1, "time_window", OrElse(st.time_window, st.listener.time_hint))
        m3 == Put(m2, "vibe", TopVibe(st.listener, m2))
    IN  Put(m3, "energy_level", st.listener.energy_level)

\* mutant: finalize ranks nothing
FinalizeResponse_DropsCandidates(st, log) ==
    PlanResponse(st.query, Get(st.merged, "vibe", "chill"),
                 Get(st.merged, "energy_level", "medium"), <<>>,
                 Append(log, EntryN("Writer: scored candidates", 0)))

\* the response of a finalize decision
\* mutant: without a merged profile finalize reports the Listener's vibe and energy
FinalizeResponse_ListenerDefaults(st, log) ==
    LET merged == st.merged
        cards == WriterRun([merged |-> merged, raw_candidates |-> st.raw_candidates])
    IN  PlanResponse(st.query, Get(merged, "vibe", st.listener.primary_vibes[1]),
                     Get(merged, "energy_level", st.listener.energy_level), cards,
                     Append(log, EntryN("Writer: scored candidates", Len(cards))))

FinalizeResponse(st, log) ==
    LET merged == st.merged
        cards == WriterRun([merged |-> merged, raw_candidates |-> st.raw_candidates])
    IN  PlanResponse(st.query, Get(merged, "vibe", "chill"),
                     Get(merged, "energy_level", "medium"), cards,
                     Append(log, EntryN("Writer: scored candidates", Len(cards))))

\* mutant: the loop exit always reports the default vibe and energy
LoopExitResponse_Defaults(st, log) ==
    LET cards == WriterRun([merged |-> st.merged, raw_candidates |-> st.raw_candidates])
    IN  PlanResponse(st.query, "chill", "medium", cards,
                     Append(log, EntryN("Writer: scored candidates (loop-exit)", Len(cards))))

\* the response built after the loop was left without a return
LoopExitResponse(st, log) ==
    LET merged == st.merged
        cards == WriterRun([merged |-> merged, raw_candidates |-> st.raw_candidates])
    IN  PlanResponse(st.query,
                     IF Truthy(merged) THEN Get(merged, "vibe", "chill") ELSE "chill",
                     IF Truthy(merged) THEN Get(merged, "energy_level", "medium") ELSE "medium",
                     cards,
                     Append(log, EntryN("Writer: scored candidates (loop-exit)", Len(cards))))

\* orchestrator.plan returning what agentic_plan returned
Delegated(resp) == resp

\* where the loop stands after iteration s went on to the next one
AfterStep(s) == IF s + 1 \in LoopRange THEN "deciding" ELSE "exited"

Asked(reply) ==
    /\ pc = "deciding"
    /\ step + 1 \in LoopRange
    /\ step' = step + 1
    /\ Effective(reply) => step' <= ArgSteps

Return(resp, exit, reply) ==
    /\ response' = Some(resp)
    /\ plan_result' = Some(Delegated(resp))
    /\ pc' = "done"
    /\ last' = [exit |-> exit, malformed |-> reply \in MalformedReplies]

Raise(reply) ==
    /\ pc' = "raised"
    /\ last' = [exit |-> "error", malformed |-> reply \in MalformedReplies]
    /\ UNCHANGED <<response, plan_result, action_log, default_plan>>

Continue(reply) ==
    /\ pc' = AfterStep(step')
    /\ last' = [exit |-> IF AfterStep(step') = "exited" THEN "exhausted" ELSE "continue",
                malformed |-> reply \in MalformedReplies]
    /\ UNCHANGED <<response, plan_result, default_plan>>

\* the reply holds no action: return the default plan
NoAction ==
    \E reply \in Replies :
        /\ reply.action = <<>>
        /\ Asked(reply)
        /\ LET plan == IF default_plan = None
                       THEN DefaultPlan(req, state, action_log)
                       ELSE default_plan[1]
           IN  /\ default_plan' = Some(plan)
               /\ calls' = calls \o << <<"decide">> >>
                           \o (IF default_plan = None THEN DefaultPlanCalls(req, state) ELSE <<>>)
               /\ Return(plan, "fallback", reply)
        /\ UNCHANGED <<fx, env, req, state, action_log, path>>

GetTastes ==
    \E reply \in Replies :
        /\ reply.action = <<"str", "get_tastes">>
        /\ Asked(reply)
        /\ IF reply.args.shape = "str" \/ reply.args.user_ids.shape = "int"
           THEN /\ calls' = Append(calls, <<"decide">>)
                /\ Raise(reply)
                /\ UNCHANGED state
           ELSE LET user_ids == IF reply.args.user_ids.val # <<>>
                                THEN reply.args.user_ids.val ELSE state.user_ids
                    tastes == Fetch(user_ids)
                IN  /\ state' = [state EXCEPT
                                   !.tastes = tastes,
                                   !.observations =
                                       Append(@, <<"Fetched tastes for users", Len(tastes)>>)]
                    /\ action_log' = LogAppend(action_log, Entry("Controller:get_tastes"))
                    /\ calls' = calls \o << <<"decide">> >> \o FetchCalls(user_ids)
                    /\ Continue(reply)
        /\ UNCHANGED <<fx, env, req, path>>

MergeTastes ==
    \E reply \in Replies :
        /\ reply.action = <<"str", "merge_tastes">>
        /\ Asked(reply)
        /\ LET fetch == NeedsTastes(state)
               tastes == IF fetch THEN Fetch(state.user_ids) ELSE state.tastes
               made == calls \o << <<"decide">> >>
                       \o (IF fetch THEN FetchCalls(state.user_ids) ELSE <<>>)
                       \o << <<"merge">> >>
           IN  IF reply.args.shape = "str" \/ reply.args.overrides.shape = "str"
               THEN /\ state' = [state EXCEPT !.tastes = tastes]
                    /\ calls' = made
                    /\ Raise(reply)
               ELSE LET merged == MergeTastesMerged(state, tastes, reply.args.overrides.val)
                    IN  /\ state' = [state EXCEPT
                                       !.tastes = tastes,
                                       !.merged = merged,
                                       !.observations =
                                           Append(@, <<"Merged tastes", merged["vibe"],
                                                       merged["budget_cap"]>>)]
                        /\ action_log' = LogAppend(action_log, Entry("Controller:merge_tastes"))
                        /\ calls' = made
                        /\ Continue(reply)
        /\ UNCHANGED <<fx, env, req, path>>

FindActivities ==
    \E reply \in Replies :
        /\ reply.action = <<"str", "find_activities">>
        /\ Asked(reply)
        /\ LET build == NeedsMerged(state)
               merged == IF build THEN FindActivitiesMerged(state) ELSE state.merged
               raw == tool_find_activities(merged)
           IN  /\ state' = [state EXCEPT
                              !.merged = merged,
                              !.raw_candidates = raw,
                              !.observations = Append(@, <<"Found activities", Len(raw)>>)]
               /\ calls' = calls \o << <<"decide">> >>
                           \o (IF build THEN << <<"merge">> >> ELSE <<>>)
                           \o << <<"find">> >>
        /\ action_log' = LogAppend(action_log, Entry("Controller:find_activities"))
        /\ Continue(reply)
        /\ UNCHANGED <<fx, env, req, path>>

Finalize ==
    \E reply \in Replies :
        /\ reply.action = <<"str", "finalize">>
        /\ Asked(reply)
        /\ LET resp == FinalizeResponse(state, action_log)
           IN  /\ action_log' = resp.action_log
               /\ Return(resp, "finalize", reply)
        /\ calls' = calls \o << <<"decide">>, <<"writer">> >>
        /\ UNCHANGED <<fx, env, req, state, path, default_plan>>

\* an action outside the known ones: break out of the loop
UnknownAction ==
    \E reply \in Replies :
        /\ reply.action # <<>>
        /\ \A a \in KnownActions : reply.action # <<"str", a>>
        /\ Asked(reply)
        /\ pc' = "exited"
        /\ last' = [exit |-> "break", malformed |-> reply \in MalformedReplies]
        /\ calls' = Append(calls, <<"decide">>)
        /\ UNCHANGED <<fx, env, req, state, action_log, path, default_plan, response, plan_result>>

\* the code after the loop
LoopExit ==
    /\ pc = "exited"
    /\ LET resp == LoopExitResponse(state, action_log)
       IN  /\ action_log' = resp.action_log
           /\ response' = Some(resp)
           /\ plan_result' = Some(Delegated(resp))
    /\ pc' = "done"
    /\ calls' = Append(calls, <<"writer">>)
    /\ UNCHANGED <<fx, env, req, state, path, default_plan, step, last>>

(***************************************************************************)
(* orchestrator.plan                                                       *)
(***************************************************************************)
\* mutant: the switch looks at the flag alone
UseAgentic_FlagOnly(e) == e.USE_AGENTIC = Some("1")

\* os.getenv("USE_AGENTIC") == "1" and agentic_plan is not None
UseAgentic(e) == e.USE_AGENTIC = Some("1") /\ e.agentic_plan

\* PlannerAgent.run(user_ids, l_out, location, time_window)
PlannerRun(user_ids, l_out, location, time_window) ==
    LET m0 == tool_merge_tastes(Fetch(user_ids))
        m1 == Put(m0, "location", location)
        m2 == Put(m1, "time_window",
                  IF time_window # None /\ time_window # Some("") THEN time_window
                  ELSE l_out.time_hint)
        m3 == Put(m2, "vibe", TopVibe(l_out, m2))
        merged == Put(m3, "energy_level", l_out.energy_level)
    IN  [merged |-> merged, raw_candidates |-> tool_find_activities(merged)]

\* mutant: the Planner's work leaves no line in the action log
FixedPlan_NoPlannerEntry(r) ==
    LET l_out == ListenerRun(r.query_text)
        log1 == <<Entry("Listener: parsed vibes/time/budget")>>
        p_out == PlannerRun(r.user_ids, l_out, StrOr(r.location_hint, "Boston, MA"),
                            r.time_window)
        cards == WriterRun(p_out)
        log3 == Append(log1, EntryN("Writer: scored candidates", Len(cards)))
    IN  PlanResponse(Strip(r.query_text), Get(p_out.merged, "vibe", "chill"),
                     Get(p_out.merged, "energy_level", "medium"), cards, log3)

\* the fixed pipeline of plan: Listener, Planner, Writer
FixedPlan(r) ==
    LET l_out == ListenerRun(r.query_text)
        log1 == <<Entry("Listener: parsed vibes/time/budget")>>
        p_out == PlannerRun(r.user_ids, l_out, StrOr(r.location_hint, "Boston, MA"),
                            r.time_window)
        log2 == Append(log1, Entry("Planner: merged tastes & fetched activities"))
        cards == WriterRun(p_out)
        log3 == Append(log2, EntryN("Writer: scored candidates", Len(cards)))
    IN  PlanResponse(Strip(r.query_text), Get(p_out.merged, "vibe", "chill"),
                     Get(p_out.merged, "energy_level", "medium"), cards, log3)

FixedPlanCalls(r) ==
    << <<"listener">> >> \o FetchCalls(r.user_ids)
    \o << <<"merge">>, <<"find">>, <<"writer">> >>

\* plan(req) with the agentic controller disabled or unavailable
PlanFixed ==
    /\ pc = "entry"
    /\ ~UseAgentic(env)
    /\ path' = "fixed"
    /\ plan_result' = Some(FixedPlan(req))
    /\ calls' = calls \o FixedPlanCalls(req)
    /\ pc' = "done"
    /\ UNCHANGED <<fx, env, req, step, state, action_log, default_plan, response, last>>

\* plan(req) handing the request to AgenticController.run, up to its loop
PlanAgentic ==
    /\ pc = "entry"
    /\ UseAgentic(env)
    /\ path' = "agentic"
    /\ action_log' = <<Entry("Listener: parsed vibes/time/budget")>>
    /\ state' = SeedState(req)
    /\ default_plan' = None
    /\ calls' = Append(calls, <<"listener">>)
    /\ pc' = "deciding"
    /\ UNCHANGED <<fx, env, req, step, response, plan_result, last>>

(***************************************************************************)
(* The state machine.                                                      *)
(***************************************************************************)
\* no function outside plan() is being called
NoCall == [op |-> "none"]

Init ==
    /\ env \in Environments
    /\ req \in Requests
    /\ pc = "entry"
    /\ step = 0
    /\ state = SeedState(req)
    /\ action_log = <<>>
    /\ default_plan = None
    /\ response = None
    /\ plan_result = None
    /\ path = "none"
    /\ calls = <<>>
    /\ last = [exit |-> "none", malformed |-> FALSE]
    /\ fx = NoCall

Next ==
    \/ PlanFixed
    \/ PlanAgentic
    \/ NoAction
    \/ GetTastes
    \/ MergeTastes
    \/ FindActivities
    \/ Finalize
    \/ UnknownAction
    \/ LoopExit

Spec == Init /\ [][Next]_vars

(***************************************************************************)
(* mock_events: the offline catalogue, its scoring and its search.         *)
(*                                                                         *)
(* An event and a query are dicts; a key that may hold None holds an       *)
(* Optional.  Budget caps are whole numbers, on which float() changes      *)
(* nothing.  The text of an event (title, summary, address) is kept as the *)
(* set of the search terms of HayTerms that occur in it, so `q in hay` is  *)
(* membership of q in that set: `hay` holds the terms that occur in the    *)
(* lowercased title, summary and address joined by blanks, `fields` those  *)
(* that occur inside one of the three.                                     *)
(***************************************************************************)
PriceBands == {"free", "$", "$$", "$$$", "$$$$"}

\* mutant: a band that is not recognized counts as free
price_to_level_UnknownIsFree(value) ==
    IF value = None \/ value = Some("") THEN None
    ELSE LET normalized == Lower(Strip(value[1]))
         IN  IF normalized \in PriceBands THEN Some(PriceLevel(normalized)) ELSE Some(0)

\* _price_to_level(value): None for a missing, empty or unrecognized band
price_to_level(value) ==
    IF value = None \/ value = Some("") THEN None
    ELSE LET normalized == Lower(Strip(value[1]))
         IN  IF normalized \in PriceBands THEN Some(PriceLevel(normalized)) ELSE None

\* _lc_words(items): the non-empty items, stripped and lowercased
lc_words(items) ==
    LET kept == SelectSeq(items, LAMBDA item : item # "")
    IN  [i \in DOMAIN kept |-> Lower(Strip(kept[i]))]

\* the search terms whose occurrence in an event's text the model records
HayTerms == {"brewing", "cambridge", "market", "night", "market open-air"}

\* the keys of _MOCK_EVENTS, in the order the dict literal gives them
MOCK_PROVIDERS == <<"google_places", "eventbrite">>

MOCK_EVENTS ==
    [p \in Range(MOCK_PROVIDERS) |->
        IF p = "google_places"
        THEN << [id |-> "gp-charles-river-espl", vibe |-> "outdoors", price |-> Some("free"),
                 tags |-> <<"park", "scenic", "running", "cycling">>,
                 source |-> "google_places", hay |-> {},
                 fields |-> {}],
                [id |-> "gp-aeronaut-brewing", vibe |-> "social", price |-> Some("$$"),
                 tags |-> <<"brewery", "live music", "nightlife">>,
                 source |-> "google_places", hay |-> {"brewing"},
                 fields |-> {"brewing"}],
                [id |-> "gp-bow-market", vibe |-> "creative", price |-> Some("$"),
                 tags |-> <<"market", "artisanal", "food hall">>,
                 source |-> "google_places", hay |-> {"market", "market open-air"},
                 fields |-> {"market"}],
                [id |-> "gp-the-sinclair", vibe |-> "music", price |-> Some("$$"),
                 tags |-> <<"concert venue", "nightlife", "indie">>,
                 source |-> "google_places", hay |-> {"cambridge", "night"},
                 fields |-> {"cambridge", "night"}],
                [id |-> "gp-nightshift-lovejoy", vibe |-> "social", price |-> Some("$$"),
                 tags |-> <<"brewery", "harbor", "patio">>,
                 source |-> "google_places", hay |-> {"brewing", "night"},
                 fields |-> {"brewing", "night"}] >>
        ELSE << [id |-> "eb-sunset-kayak", vibe |-> "outdoors", price |-> Some("$$"),
                 tags |-> <<"kayaking", "sunset", "fitness">>,
                 source |-> "eventbrite", hay |-> {"cambridge"},
                 fields |-> {"cambridge"}],
                [id |-> "eb-vinyl-night", vibe |-> "music", price |-> Some("$"),
                 tags |-> <<"vinyl", "craft beer", "nightlife">>,
                 source |-> "eventbrite", hay |-> {"brewing", "cambridge", "night"},
                 fields |-> {"brewing", "cambridge", "night"}],
                [id |-> "eb-pop-up-market", vibe |-> "creative", price |-> Some("free"),
                 tags |-> <<"market", "art", "food trucks">>,
                 source |-> "eventbrite", hay |-> {"market", "cambridge", "night"},
                 fields |-> {"market", "cambridge", "night"}],
                [id |-> "eb-board-game-cafe", vibe |-> "cozy", price |-> Some("$"),
                 tags |-> <<"board games", "cafe", "social">>,
                 source |-> "eventbrite", hay |-> {"night"},
                 fields |-> {"night"}],
                [id |-> "eb-silent-disco", vibe |-> "party", price |-> Some("$$"),
                 tags |-> <<"dance", "nightlife", "skyline">>,
                 source |-> "eventbrite", hay |-> {"night"},
                 fields |-> {"night"}] >>]

\* mutant: the tag signal fires whether or not the vibe matched exactly
event_score_BothVibeSignals(event, query) ==
    LET vibe_query == Lower(Strip(StrOr(Get(query, "vibe", None), "")))
        event_tags == Range(lc_words(Get(event, "tags", <<>>)))
        likes == Range(lc_words(Get(query, "likes", <<>>)))
        tags == Range(lc_words(Get(query, "tags", <<>>)))
        budget_cap == Get(query, "budget_cap", None)
        level == price_to_level(Get(event, "price", None))
    IN  (IF vibe_query # "" /\ Lower(Get(event, "vibe", "")) = vibe_query THEN 25 ELSE 0)
        + (IF vibe_query # "" /\ vibe_query \in event_tags THEN 15 ELSE 0)
        + 12 * Cardinality(likes \cap event_tags)
        + 10 * Cardinality(tags \cap event_tags)
        + (IF budget_cap # None /\ level # None
           THEN (IF level[1] <= BudgetLevel(budget_cap[1]) THEN 10 ELSE -10)
           ELSE 0)

\* mutant: every entry of likes and of tags counts, repeated or not
event_score_CountsRepeats(event, query) ==
    LET vibe_query == Lower(Strip(StrOr(Get(query, "vibe", None), "")))
        event_tags == Range(lc_words(Get(event, "tags", <<>>)))
        likes == lc_words(Get(query, "likes", <<>>))
        tags == lc_words(Get(query, "tags", <<>>))
        budget_cap == Get(query, "budget_cap", None)
        level == price_to_level(Get(event, "price", None))
    IN  (IF vibe_query # "" /\ Lower(Get(event, "vibe", "")) = vibe_query THEN 25
         ELSE IF vibe_query # "" /\ vibe_query \in event_tags THEN 15
         ELSE 0)
        + 12 * Cardinality({i \in DOMAIN likes : likes[i] \in event_tags})
        + 10 * Cardinality({i \in DOMAIN tags : tags[i] \in event_tags})
        + (IF budget_cap # None /\ level # None
           THEN (IF level[1] <= BudgetLevel(budget_cap[1]) THEN 10 ELSE -10)
           ELSE 0)

\* _event_score(event, query), times 10
event_score(event, query) ==
    LET vibe_query == Lower(Strip(StrOr(Get(query, "vibe", None), "")))
        event_tags == Range(lc_words(Get(event, "tags", <<>>)))
        likes == Range(lc_words(Get(query, "likes", <<>>)))
        tags == Range(lc_words(Get(query, "tags", <<>>)))
        budget_cap == Get(query, "budget_cap", None)
        level == price_to_level(Get(event, "price", None))
    IN  (IF vibe_query # "" /\ Lower(Get(event, "vibe", "")) = vibe_query THEN 25
         ELSE IF vibe_query # "" /\ vibe_query \in event_tags THEN 15
         ELSE 0)
        + 12 * Cardinality(likes \cap event_tags)
        + 10 * Cardinality(tags \cap event_tags)
        + (IF budget_cap # None /\ level # None
           THEN (IF level[1] <= BudgetLevel(budget_cap[1]) THEN 10 ELSE -10)
           ELSE 0)

\* mutant: an item goes in front of the items that score the same
RECURSIVE InsertScored_TiesFirst(_, _)
InsertScored_TiesFirst(item, sorted) ==
    IF sorted = <<>> THEN <<item>>
    ELSE IF Head(sorted)[1] > item[1]
         THEN <<Head(sorted)>> \o InsertScored_TiesFirst(item, Tail(sorted))
         ELSE <<item>> \o sorted

\* one step of list.sort(key=lambda item: item[0], reverse=True), which is
\* stable: an item goes behind every item that scores at least as high
RECURSIVE InsertScored(_, _)
InsertScored(item, sorted) ==
    IF sorted = <<>> THEN <<item>>
    ELSE IF Head(sorted)[1] >= item[1]
         THEN <<Head(sorted)>> \o InsertScored(item, Tail(sorted))
         ELSE <<item>> \o sorted

\* scored.sort(key=lambda item: item[0], reverse=True)
RECURSIVE SortScored(_)
SortScored(scored) ==
    IF scored = <<>> THEN <<>>
    ELSE InsertScored(scored[Len(scored)],
                      SortScored(SubSeq(scored, 1, Len(scored) - 1)))

\* mutant: the slice keeps one item more
Take_OneMore(items, n) == SubSeq(items, 1, IF n + 1 < Len(items) THEN n + 1 ELSE Len(items))

\* the slice items[:n] for n >= 0
Take(items, n) == SubSeq(items, 1, IF n < Len(items) THEN n ELSE Len(items))

ToolCandidateLimit == 20
DefaultSearchLimit == 25

\* get_tool_candidates(provider, query)
get_tool_candidates(provider, query) ==
    LET events == Get(MOCK_EVENTS, provider, <<>>)
        scored == [i \in DOMAIN events |-> <<event_score(events[i], query), events[i]>>]
        top == Take(SortScored(scored), ToolCandidateLimit)
    IN  [i \in DOMAIN top |-> top[i][2]]

\* mutant: the vibe filter is not applied
search_mock_events_VibeIgnored(filters) ==
    LET provider == Lower(Strip(StrOr(Get(filters, "provider", None), "")))
        providers == IF provider \in DOMAIN MOCK_EVENTS THEN <<provider>>
                     ELSE MOCK_PROVIDERS
        merged == Flatten([i \in DOMAIN providers |->
                              get_tool_candidates(providers[i], filters)])
        q == Lower(Strip(StrOr(Get(filters, "q", None), "")))
        match(e) == ~(q # "" /\ q \notin Get(e, "hay", {}))
        filtered == SelectSeq(merged, match)
        rescored == SortScored([i \in DOMAIN filtered |->
                                   <<event_score(filtered[i], filters), filtered[i]>>])
        given == Get(filters, "limit", None)
        limit == IF given = None \/ given = Some(0) THEN DefaultSearchLimit ELSE given[1]
        top == Take(rescored, limit)
    IN  [i \in DOMAIN top |-> top[i][2]]

\* search_mock_events(filters)
search_mock_events(filters) ==
    LET provider == Lower(Strip(StrOr(Get(filters, "provider", None), "")))
        providers == IF provider \in DOMAIN MOCK_EVENTS THEN <<provider>>
                     ELSE MOCK_PROVIDERS
        merged == Flatten([i \in DOMAIN providers |->
                              get_tool_candidates(providers[i], filters)])
        q == Lower(Strip(StrOr(Get(filters, "q", None), "")))
        vibe == Lower(Strip(StrOr(Get(filters, "vibe", None), "")))
        match(e) == /\ ~(vibe # "" /\ Lower(Get(e, "vibe", "")) # vibe)
                    /\ ~(q # "" /\ q \notin Get(e, "hay", {}))
        filtered == SelectSeq(merged, match)
        rescored == SortScored([i \in DOMAIN filtered |->
                                   <<event_score(filtered[i], filters), filtered[i]>>])
        given == Get(filters, "limit", None)
        limit == IF given = None \/ given = Some(0) THEN DefaultSearchLimit ELSE given[1]
        top == Take(rescored, limit)
    IN  [i \in DOMAIN top |-> top[i][2]]

(***************************************************************************)
(* Calls of the mock_events functions on bounded arguments.                *)
(***************************************************************************)
\* a dict with key k when the choice c holds a value, the empty dict otherwise
Field(k, c) == IF c = <<>> THEN EmptyDict ELSE [x \in {k} |-> c[1]]

VibeChoices ==
    {<<>>, <<None>>, <<Some("")>>, <<Some("   ")>>, <<Some("music")>>,
     <<Some(" Music ")>>, <<Some("MUSIC")>>, <<Some("indie")>>, <<Some("outdoors")>>}
LikesChoices ==
    {<<>>, << <<>> >>, << <<"indie">> >>, << <<"Indie", "indie", " nightlife ">> >>,
     << <<" nightlife ", "indie">> >>}
TagsChoices ==
    {<<>>, << <<"nightlife">> >>, << <<"market", "art", "">> >>,
     << <<"art", "Market", "market">> >>}
CapChoices == {<<>>, <<None>>, <<Some(0)>>, <<Some(20)>>, <<Some(50)>>, <<Some(100)>>}

ProbeQueries ==
    {Field("vibe", v) @@ Field("likes", l) @@ Field("tags", t) @@ Field("budget_cap", b) :
        v \in VibeChoices, l \in LikesChoices, t \in TagsChoices, b \in CapChoices}

\* events beside the catalogue's: odd case, missing keys, unknown price bands
OddEvents ==
    {[id |-> "x-scenario", vibe |-> "music", price |-> Some("$"), tags |-> <<"indie">>],
     [id |-> "x-upper", vibe |-> "Music", price |-> Some(" FREE "),
      tags |-> <<"Indie", "", " nightlife ">>],
     [id |-> "x-both", vibe |-> "music", price |-> Some("$$$$"), tags |-> <<"music", "indie">>],
     [id |-> "x-tagged", vibe |-> "social", price |-> Some("$$$"), tags |-> <<"Music">>],
     [id |-> "x-no-price", vibe |-> "music", tags |-> <<"indie">>],
     [id |-> "x-none-price", vibe |-> "music", price |-> None, tags |-> <<"nightlife">>],
     [id |-> "x-empty-price", vibe |-> "outdoors", price |-> Some(""), tags |-> <<"market">>],
     [id |-> "x-odd-price", vibe |-> "music", price |-> Some("cheap"), tags |-> <<"indie">>],
     [id |-> "x-dup-tags", vibe |-> "social", price |-> Some("$"),
      tags |-> <<"indie", "Indie", "nightlife", "Market", "art">>],
     [id |-> "x-bare"]}

ProbeEvents == OddEvents \cup Range(Flatten([i \in DOMAIN MOCK_PROVIDERS |->
                                               MOCK_EVENTS[MOCK_PROVIDERS[i]]]))

BudgetCaps == {-5, 0, 1, 19, 20, 21, 44, 45, 46, 74, 75, 76, 200}
PriceValues ==
    {None, Some(""), Some("free"), Some("$"), Some("$$"), Some("$$$"), Some("$$$$"),
     Some(" FREE "), Some("cheap"), Some("$$$$$")}

ProviderChoices ==
    {<<>>, <<None>>, <<Some("google_places")>>, <<Some(" Eventbrite ")>>, <<Some("yelp")>>}
QChoices ==
    {<<>>, <<Some(" Cambridge ")>>, <<Some("night")>>, <<Some("harbor cruise")>>,
     <<Some("market open-air")>>}
LimitChoices == {<<>>, <<None>>, <<Some(0)>>, <<Some(3)>>, <<Some(25)>>}

SearchFilters ==
    {Field("provider", p) @@ Field("q", q) @@ Field("vibe", v) @@ Field("likes", l)
        @@ Field("tags", t) @@ Field("budget_cap", b) @@ Field("limit", n) :
        p \in ProviderChoices, q \in QChoices,
        v \in {<<>>, <<Some("")>>, <<Some(" Music ")>>, <<Some("creative")>>},
        l \in {<<>>, << <<"Indie", "indie", " nightlife ">> >>},
        t \in {<<>>, << <<"market", "art", "">> >>},
        b \in {<<>>, <<Some(20)>>, <<Some(50)>>},
        n \in LimitChoices}

MockCalls ==
    {[op |-> "_event_score", event |-> e, query |-> q, result |-> None] :
        e \in ProbeEvents, q \in ProbeQueries}
    \cup {[op |-> "_budget_to_level", budget_cap |-> c, result |-> None] : c \in BudgetCaps}
    \cup {[op |-> "_price_to_level", value |-> v, result |-> None] : v \in PriceValues}
    \cup {[op |-> "get_tool_candidates", provider |-> p, query |-> q, result |-> None] :
            p \in {"google_places", "eventbrite", "yelp"}, q \in ProbeQueries}
    \cup {[op |-> "search_mock_events", filters |-> f, result |-> None] : f \in SearchFilters}

\* no request is being planned
NoRequest ==
    [query_text |-> "", user_ids |-> <<>>, location_hint |-> None, time_window |-> None]

NoPlan ==
    /\ env = [USE_AGENTIC |-> None, agentic_plan |-> FALSE]
    /\ req = NoRequest
    /\ pc = "idle"
    /\ step = 0
    /\ state = SeedState(NoRequest)
    /\ action_log = <<>>
    /\ default_plan = None
    /\ response = None
    /\ plan_result = None
    /\ path = "none"
    /\ calls = <<>>
    /\ last = [exit |-> "none", malformed |-> FALSE]

planVars == <<env, req, pc, step, state, action_log, default_plan, response,
              plan_result, path, calls, last>>

Called(op) == fx.op = op /\ fx.result = None

EventScore ==
    /\ Called("_event_score")
    /\ fx' = [fx EXCEPT !.result = Some(event_score(fx.event, fx.query))]
    /\ UNCHANGED planVars

BudgetToLevel ==
    /\ Called("_budget_to_level")
    /\ fx' = [fx EXCEPT !.result = Some(BudgetLevel(fx.budget_cap))]
    /\ UNCHANGED planVars

PriceToLevel ==
    /\ Called("_price_to_level")
    /\ fx' = [fx EXCEPT !.result = Some(price_to_level(fx.value))]
    /\ UNCHANGED planVars

GetToolCandidates ==
    /\ Called("get_tool_candidates")
    /\ fx' = [fx EXCEPT !.result = Some(get_tool_candidates(fx.provider, fx.query))]
    /\ UNCHANGED planVars

SearchMockEvents ==
    /\ Called("search_mock_events")
    /\ fx' = [fx EXCEPT !.result = Some(search_mock_events(fx.filters))]
    /\ UNCHANGED planVars

MockInit == NoPlan /\ fx \in MockCalls

MockNext ==
    \/ EventScore
    \/ BudgetToLevel
    \/ PriceToLevel
    \/ GetToolCandidates
    \/ SearchMockEvents

SpecMock == MockInit /\ [][MockNext]_vars

(***************************************************************************)
(* Two planning requests handled at the same time, each by its own call of *)
(* agentic_plan.  A call of run keeps its locals (state, action_log,       *)
(* default_plan, step) in a frame; the two calls take turns, one loop      *)
(* iteration at a time.                                                    *)
(***************************************************************************)
TwoSteps == 2       \* iterations of one of two concurrent runs that may go on to a next

Runs == {1, 2}

\* mutant: the locals of run live in one place shared by every call
Frame_Shared(i) == 1

\* the frame of call i: `action_log = []` and `state = {...}` are new objects
\* in every call of run, on a new AgenticController
Frame(i) == i

\* the locals of run when the loop is entered
SeedFrame(r) ==
    [state |-> SeedState(r),
     action_log |-> <<Entry("Listener: parsed vibes/time/budget")>>,
     default_plan |-> None,
     step |-> 0]

\* replies of the StepReasoner to two concurrent runs: no action, each known
\* action without args, and an unknown action
TwoReplies ==
    {NoReply} \cup {[action |-> <<"str", a>>, args |-> NoArgs] :
                       a \in KnownActions \cup {"bogus_action"}}

GoesOn(reply) ==
    reply.action \in {<<"str", "get_tastes">>, <<"str", "merge_tastes">>,
                      <<"str", "find_activities">>}

\* one iteration of the loop of run on the locals loc, with the code after
\* the loop when the iteration leaves it
RunStep(r, loc, reply) ==
    LET st == loc.state
        log == loc.action_log
        n == loc.step + 1
        Done(resp, l2) == [loc |-> l2, pc |-> "done", result |-> Some(resp)]
        Exit(st2, log2) ==
            LET resp == LoopExitResponse(st2, log2)
            IN  Done(resp, [loc EXCEPT !.state = st2, !.action_log = resp.action_log,
                                       !.step = n])
        Go(st2, log2) ==
            IF AfterStep(n) = "deciding"
            THEN [loc |-> [loc EXCEPT !.state = st2, !.action_log = log2, !.step = n],
                  pc |-> "deciding", result |-> None]
            ELSE Exit(st2, log2)
    IN  CASE reply.action = <<>> ->
               LET plan == IF loc.default_plan = None THEN DefaultPlan(r, st, log)
                           ELSE loc.default_plan[1]
               IN  Done(plan, [loc EXCEPT !.default_plan = Some(plan), !.step = n])
          [] reply.action = <<"str", "get_tastes">> ->
               LET user_ids == IF reply.args.user_ids.val # <<>>
                               THEN reply.args.user_ids.val ELSE st.user_ids
                   tastes == Fetch(user_ids)
               IN  Go([st EXCEPT !.tastes = tastes,
                                 !.observations =
                                     Append(@, <<"Fetched tastes for users", Len(tastes)>>)],
                      LogAppend(log, Entry("Controller:get_tastes")))
          [] reply.action = <<"str", "merge_tastes">> ->
               LET tastes == IF NeedsTastes(st) THEN Fetch(st.user_ids) ELSE st.tastes
                   merged == MergeTastesMerged(st, tastes, reply.args.overrides.val)
               IN  Go([st EXCEPT !.tastes = tastes,
                                 !.merged = merged,
                                 !.observations =
                                     Append(@, <<"Merged tastes", merged["vibe"],
                                                 merged["budget_cap"]>>)],
                      LogAppend(log, Entry("Controller:merge_tastes")))
          [] reply.action = <<"str", "find_activities">> ->
               LET merged == IF NeedsMerged(st) THEN FindActivitiesMerged(st) ELSE st.merged
                   raw == tool_find_activities(merged)
               IN  Go([st EXCEPT !.merged = merged,
                                 !.raw_candidates = raw,
                                 !.observations = Append(@, <<"Found activities", Len(raw)>>)],
                      LogAppend(log, Entry("Controller:find_activities")))
          [] reply.action = <<"str", "finalize">> ->
               LET resp == FinalizeResponse(st, log)
               IN  Done(resp, [loc EXCEPT !.action_log = resp.action_log, !.step = n])
          [] OTHER -> Exit(st, log)

\* the requests of two concurrent runs: those that name users
TwoRequests == {r \in Requests : r.user_ids # <<>>}

NoFrame == [step |-> -1]

TwoInit ==
    /\ NoPlan
    /\ \E r1, r2 \in TwoRequests :
          fx = [op |-> "agentic_plan",
                frames |-> [f \in Runs |-> NoFrame],
                run |-> [i \in Runs |->
                            [req |-> IF i = 1 THEN r1 ELSE r2, pc |-> "entry",
                             answers |-> <<>>, result |-> None]]]

\* call i enters run: Listener, then the locals are made
RunEnter(i) ==
    /\ fx.op = "agentic_plan"
    /\ fx.run[i].pc = "entry"
    /\ fx' = [fx EXCEPT !.frames[Frame(i)] = SeedFrame(fx.run[i].req),
                        !.run[i].pc = "deciding"]
    /\ UNCHANGED planVars

\* call i goes through one iteration of its loop
RunIterate(i) ==
    /\ fx.op = "agentic_plan"
    /\ fx.run[i].pc = "deciding"
    /\ \E reply \in TwoReplies :
          /\ GoesOn(reply) => fx.frames[Frame(i)].step < TwoSteps
          /\ LET out == RunStep(fx.run[i].req, fx.frames[Frame(i)], reply)
             IN  fx' = [fx EXCEPT !.frames[Frame(i)] = out.loc,
                                  !.run[i].pc = out.pc,
                                  !.run[i].result = out.result,
                                  !.run[i].answers = Append(@, reply)]
    /\ UNCHANGED planVars

TwoNext ==
    \/ \E i \in Runs : RunEnter(i)
    \/ \E i \in Runs : RunIterate(i)

SpecTwo == TwoInit /\ [][TwoNext]_vars

(***************************************************************************)
(* The merge-with-overrides step of merge_tastes on its own: the merged    *)
(* profile for a seeded ControllerState, the tastes of its users and the   *)
(* overrides of a reply.                                                   *)
(***************************************************************************)
OverrideChoices ==
    [location : {<<>>, <<"">>, <<"Somerville">>},
     time_window : {<<>>, <<"">>, <<"sun 9am">>},
     vibe : {<<>>, <<"">>, <<"outdoors">>},
     energy_level : {<<>>, <<"">>, <<"low">>}]

OverrideMaps ==
    {Field("location", c.location) @@ Field("time_window", c.time_window)
        @@ Field("vibe", c.vibe) @@ Field("energy_level", c.energy_level) :
        c \in OverrideChoices}

MergeRequests ==
    [query_text : {"", " live music tonight "},
     user_ids : {<<"u1">>},
     location_hint : {None, Some(" Cambridge, MA ")},
     time_window : {None, Some("   "), Some("sat 5pm")}]

MergeInit ==
    /\ NoPlan
    /\ \E r \in MergeRequests, o \in OverrideMaps :
          fx = [op |-> "merge_tastes", req |-> r, overrides |-> o, result |-> None]

\* merge_tastes on a freshly seeded state: fetch, merge, apply the overrides
MergeWithOverrides ==
    /\ Called("merge_tastes")
    /\ LET st == SeedState(fx.req)
       IN  fx' = [fx EXCEPT !.result =
                     Some(MergeTastesMerged(st, Fetch(st.user_ids), fx.overrides))]
    /\ UNCHANGED planVars

MergeNext == MergeWithOverrides

SpecMerge == MergeInit /\ [][MergeNext]_vars

(***************************************************************************)
(* agent_workflow: agent_discover and its keyword heuristic.               *)
(*                                                                         *)
(* A prompt is the sequence of its pieces: the separators, a comma or a    *)
(* bullet, and the runs of text between them, so two runs are never        *)
(* adjacent.  The friends dict is the sequence of its values in insertion  *)
(* order.  A value that may have more than one Python type is a tuple      *)
(* whose first element names the type.  The text of the ADK reply is kept  *)
(* as what json.loads makes of it.                                         *)
(***************************************************************************)
Comma == ","
\* stands for the bullet character U+2022
Bullet == "(bullet)"

\* prompt.replace(bullet, ",")
ReplaceBullets(prompt) ==
    [i \in DOMAIN prompt |-> IF prompt[i] = Bullet THEN Comma ELSE prompt[i]]

\* text.split(","): the runs between commas, "" where there is none
RECURSIVE SplitCommas(_)
SplitCommas(prompt) ==
    IF prompt = <<>> THEN <<"">>
    ELSE IF Head(prompt) = Comma THEN <<"">> \o SplitCommas(Tail(prompt))
    ELSE IF Len(prompt) = 1 THEN <<Head(prompt)>>
    ELSE <<Head(prompt)>> \o SplitCommas(Tail(Tail(prompt)))

\* the first loop of _fallback_keywords: the stripped parts that are not empty
PromptParts(prompt) ==
    LET parts == SplitCommas(ReplaceBullets(prompt))
        cleaned == [i \in DOMAIN parts |-> Strip(parts[i])]
    IN  SelectSeq(cleaned, LAMBDA c : c # "")

\* the second loop: the truthy likes of the profiles that are dicts with a
\* list under "likes"
FriendLikes(friends) ==
    Flatten([i \in DOMAIN friends |->
                IF friends[i].isdict /\ friends[i].likes[1] = "list"
                THEN SelectSeq(friends[i].likes[2], LAMBDA item : item # "")
                ELSE <<>>])

\* mutant: only entries that are equal letter for letter count as seen
Unique_CaseSensitive(keywords, seen) ==
    LET keep == {i \in DOMAIN keywords : \A j \in 1..(i - 1) : keywords[j] # keywords[i]}
        Kept[i \in 0..Len(keywords)] ==
            IF i = 0 THEN <<>>
            ELSE IF i \in keep /\ keywords[i] \notin seen THEN Append(Kept[i - 1], keywords[i])
            ELSE Kept[i - 1]
    IN  Kept[Len(keywords)]

\* the third loop: keep kw unless its lower-case form was seen
RECURSIVE Unique(_, _)
Unique(keywords, seen) ==
    IF keywords = <<>> THEN <<>>
    ELSE LET kw == Head(keywords)
             token == Lower(kw)
         IN  IF token \notin seen
             THEN <<kw>> \o Unique(Tail(keywords), seen \cup {token})
             ELSE Unique(Tail(keywords), seen)

KeywordLimit == 12

\* _fallback_keywords(prompt, friends)
fallback_keywords(prompt, friends) ==
    LET keywords == PromptParts(prompt) \o FriendLikes(friends)
        unique == Unique(keywords, {})
    IN  SubSeq(unique, 1, IF KeywordLimit < Len(unique) THEN KeywordLimit ELSE Len(unique))

\* truthiness of a typed value
TruthyValue(v) ==
    CASE v[1] = "none" -> FALSE
      [] v[1] = "str" -> v[2] # ""
      [] v[1] = "list" -> v[2] # <<>>
      [] v[1] = "num" -> v[2] # 0

\* a or b
OrValue(a, b) == IF TruthyValue(a) THEN a ELSE b

\* _parse_agent_payload(text): the summary and the keywords, or the
\* exception that leaves it
parse_agent_payload(text) ==
    IF ~text.json
    THEN [exc |-> None, summary |-> Strip(text.raw), keywords |-> <<>>]
    ELSE IF ~text.isdict
    THEN [exc |-> Some("AttributeError"), summary |-> "", keywords |-> <<>>]
    ELSE LET data == text.data
             summary == OrValue(OrValue(data.summary, data.plan), <<"str", "">>)
             keywords == OrValue(OrValue(data.keywords, data.queries), <<"list", <<>> >>)
             listed == IF keywords[1] = "str" THEN <<"list", <<keywords[2]>> >> ELSE keywords
         IN  IF listed[1] # "list"
             THEN [exc |-> Some("TypeError"), summary |-> "", keywords |-> <<>>]
             ELSE [exc |-> None, summary |-> summary[2],
                   keywords |-> SelectSeq(listed[2], LAMBDA item : item # "")]

\* get_agent_client(): the client, None, or the exception of default()
get_agent_client(world) ==
    IF ~world.AgentClient THEN [exc |-> None, client |-> FALSE]
    ELSE IF ~world.project_id THEN [exc |-> None, client |-> FALSE]
    ELSE IF ~world.credentials THEN [exc |-> Some("DefaultCredentialsError"), client |-> FALSE]
    ELSE IF ~world.constructs THEN [exc |-> None, client |-> FALSE]
    ELSE [exc |-> None, client |-> TRUE]

\* _call_adk(prompt, friends) in a world: what it returns or raises
call_adk(world) ==
    LET got == get_agent_client(world)
    IN  IF got.exc # None THEN [exc |-> got.exc, summary |-> "", keywords |-> <<>>]
        ELSE IF ~got.client \/ ~world.types
        THEN [exc |-> Some("RuntimeError"), summary |-> "", keywords |-> <<>>]
        ELSE IF world.session.kind = "raises"
        THEN [exc |-> Some("Exception"), summary |-> "", keywords |-> <<>>]
        ELSE IF world.session.kind = "no content"
        THEN [exc |-> Some("RuntimeError"), summary |-> "", keywords |-> <<>>]
        ELSE parse_agent_payload(world.session.text)

\* mutant: the handler is for RuntimeError alone
Catches_RuntimeErrorOnly(exc) == exc = "RuntimeError"

\* except Exception: every exception _call_adk can raise is an Exception
Catches(exc) == TRUE

\* the filters agent_discover searches with
DiscoverFilters(prompt, location, budget_cap, keywords) ==
    [q |-> prompt, location |-> location, budget_cap |-> budget_cap,
     likes |-> keywords, distance_cap |-> 10]

(***************************************************************************)
(* Calls of _fallback_keywords and agent_discover on bounded arguments.    *)
(***************************************************************************)
TextRuns == {"music", " Music ", "   ", "indie"}
Pieces == {Comma, Bullet} \cup TextRuns

MaxPieces == 3

Prompts ==
    {p \in UNION {[1..n -> Pieces] : n \in 0..MaxPieces} :
        \A i \in 1..(Len(p) - 1) : ~(p[i] \in TextRuns /\ p[i + 1] \in TextRuns)}

NotADict == [isdict |-> FALSE]
ProfileWith(likes) == [isdict |-> TRUE, likes |-> likes]

FriendsChoices ==
    {<<>>,
     <<NotADict>>,
     <<ProfileWith(<<"none">>)>>,
     <<ProfileWith(<<"str", "music">>)>>,
     <<ProfileWith(<<"list", <<"Music", "", "indie">> >>)>>,
     <<ProfileWith(<<"list", <<"MUSIC", "hiking">> >>),
       ProfileWith(<<"list", <<"hiking", "Indie", "   ">> >>)>>,
     <<ProfileWith(<<"list", <<"k1", "k2", "k3", "k4", "k5", "k6", "k7",
                              "K1", "k8", "k9", "k10", "k11", "k12", "k13">> >>)>>}

NoValue == <<"none">>
Payload(summary, plan, keywords, queries) ==
    [json |-> TRUE, isdict |-> TRUE,
     data |-> [summary |-> summary, plan |-> plan, keywords |-> keywords, queries |-> queries]]

AdkTexts ==
    {[json |-> FALSE, raw |-> " live music tonight "],
     [json |-> TRUE, isdict |-> FALSE],
     Payload(<<"str", "a night out">>, NoValue, <<"list", <<"jazz", "", "Jazz">> >>, NoValue),
     Payload(NoValue, <<"str", "a plan">>, NoValue, <<"list", <<"trivia">> >>),
     Payload(<<"str", "a night out">>, NoValue, <<"list", <<>> >>, <<"str", "karaoke">>),
     Payload(<<"str", "a night out">>, NoValue, NoValue, NoValue),
     Payload(<<"str", "">>, NoValue, <<"list", <<"">> >>, NoValue),
     Payload(NoValue, NoValue, <<"num", 5>>, NoValue)}

Sessions ==
    {[kind |-> "raises"], [kind |-> "no content"]}
    \cup {[kind |-> "text", text |-> t] : t \in AdkTexts}

\* the worlds in which everything up to the session works, and those in
\* which one thing does not
Worlds ==
    {[AgentClient |-> TRUE, types |-> TRUE, project_id |-> TRUE, credentials |-> TRUE,
      constructs |-> TRUE, session |-> x] : x \in Sessions}
    \cup {w \in [AgentClient : BOOLEAN, types : BOOLEAN, project_id : BOOLEAN,
                 credentials : BOOLEAN, constructs : BOOLEAN,
                 session : {[kind |-> "no content"]}] :
             Cardinality({k \in {"AgentClient", "types", "project_id", "credentials",
                                 "constructs"} : ~w[k]}) = 1}

DiscoverPrompts == {p \in Prompts : Len(p) <= 1} \cup {<<"indie", Comma, " Music ">>}

DiscoverCalls ==
    {[op |-> "_fallback_keywords", prompt |-> p, friends |-> f, result |-> None] :
        p \in Prompts, f \in FriendsChoices}
    \cup {[op |-> "agent_discover", prompt |-> p, friends |-> f, location |-> None,
           budget_cap |-> b, world |-> w, at |-> "call_adk", exc |-> None,
           summary |-> "", keywords |-> <<>>, finds |-> <<>>, result |-> None] :
            p \in DiscoverPrompts, f \in FriendsChoices, b \in {None, Some(50)},
            w \in Worlds}

DiscoverInit == NoPlan /\ fx \in DiscoverCalls

FallbackKeywords ==
    /\ Called("_fallback_keywords")
    /\ fx' = [fx EXCEPT !.result = Some(fallback_keywords(fx.prompt, fx.friends))]
    /\ UNCHANGED planVars

At(place) == Called("agent_discover") /\ fx.at = place

\* line 100: _call_adk returns or raises
CallAdk ==
    /\ At("call_adk")
    /\ LET got == call_adk(fx.world)
       IN  IF got.exc # None
           THEN fx' = [fx EXCEPT !.exc = got.exc, !.at = "except"]
           ELSE fx' = [fx EXCEPT !.summary = got.summary, !.keywords = got.keywords,
                                 !.at = "keywords"]
    /\ UNCHANGED planVars

\* lines 101-104: the handler, or the exception leaves agent_discover
Handle ==
    /\ At("except")
    /\ IF Catches(fx.exc[1])
       THEN fx' = [fx EXCEPT !.summary = "",
                             !.keywords = fallback_keywords(fx.prompt, fx.friends),
                             !.at = "keywords"]
       ELSE fx' = [fx EXCEPT !.at = "raised"]
    /\ UNCHANGED planVars

\* lines 106-117: the heuristic when there are no keywords, then the search
Discover ==
    /\ At("keywords")
    /\ LET keywords == IF fx.keywords = <<>>
                       THEN fallback_keywords(fx.prompt, fx.friends)
                       ELSE fx.keywords
       IN  fx' = [fx EXCEPT !.keywords = keywords,
                            !.finds = Append(@, DiscoverFilters(fx.prompt, fx.location,
                                                               fx.budget_cap, keywords)),
                            !.at = "return"]
    /\ UNCHANGED planVars

\* lines 119-123
DiscoverReturn ==
    /\ At("return")
    /\ fx' = [fx EXCEPT !.at = "done",
                        !.result = Some([summary |-> fx.summary, keywords |-> fx.keywords,
                                         activities |-> tool_find_activities(fx.finds[1])])]
    /\ UNCHANGED planVars

DiscoverNext ==
    \/ FallbackKeywords
    \/ CallAdk
    \/ Handle
    \/ Discover
    \/ DiscoverReturn

SpecDiscover == DiscoverInit /\ [][DiscoverNext]_vars

(***************************************************************************)
(* The in-memory visits API: create_visit served by concurrent workers.    *)
(*                                                                         *)
(* The endpoints are plain functions, which the server runs on worker      *)
(* threads; a worker can be preempted between two statements.  A visit is  *)
(* kept as its user and its place; latlng_to_h3 maps the place to a cell.  *)
(***************************************************************************)
Workers == {1, 2}
MaxRequests == 3

VisitUsers == {"u1", "u2"}
Places == {"piedmont park", "ponce city market"}

\* latlng_to_h3(lat, lng, 9): the cell of a place
latlng_to_h3(place) ==
    CASE place = "piedmont park" -> "cell-a"
      [] place = "ponce city market" -> "cell-b"

VisitsIn == [user_id : VisitUsers, place : Places]

IdleWorker == [at |-> "idle"]

\* INMEM_VISITS = [], INMEM_USER_HEXES = defaultdict(set), no request served
VisitsInit ==
    /\ NoPlan
    /\ fx = [op |-> "create_visit", INMEM_VISITS |-> <<>>,
             INMEM_USER_HEXES |-> [u \in VisitUsers |-> {}],
             worker |-> [w \in Workers |-> IdleWorker],
             started |-> 0, replies |-> <<>>]

\* the payload appended to INMEM_VISITS
VisitPayload(visit, visit_id, h3_index) ==
    [id |-> visit_id, user_id |-> visit.user_id, place |-> visit.place, h3 |-> h3_index]

\* lines 110-112: the cell of the visit, then visit_id = len(INMEM_VISITS) + 1
VisitBegin(w) ==
    /\ fx.op = "create_visit"
    /\ fx.worker[w].at = "idle"
    /\ fx.started < MaxRequests
    /\ \E visit \in VisitsIn :
           fx' = [fx EXCEPT !.started = @ + 1,
                            !.worker[w] = [at |-> "append", visit |-> visit,
                                           h3_index |-> latlng_to_h3(visit.place),
                                           visit_id |-> Len(fx.INMEM_VISITS) + 1]]
    /\ UNCHANGED planVars

\* lines 113-127: INMEM_VISITS.append(payload)
VisitAppend(w) ==
    /\ fx.op = "create_visit"
    /\ fx.worker[w].at = "append"
    /\ LET me == fx.worker[w]
       IN  fx' = [fx EXCEPT !.INMEM_VISITS =
                                Append(@, VisitPayload(me.visit, me.visit_id, me.h3_index)),
                            !.worker[w].at = "hexes"]
    /\ UNCHANGED planVars

\* line 128: INMEM_USER_HEXES[visit.user_id].add(h3_index)
VisitHexes(w) ==
    /\ fx.op = "create_visit"
    /\ fx.worker[w].at = "hexes"
    /\ LET me == fx.worker[w]
       IN  fx' = [fx EXCEPT !.INMEM_USER_HEXES[me.visit.user_id] = @ \cup {me.h3_index},
                            !.worker[w].at = "return"]
    /\ UNCHANGED planVars

\* line 129: the reply; the worker is free for the next request
VisitReturn(w) ==
    /\ fx.op = "create_visit"
    /\ fx.worker[w].at = "return"
    /\ LET me == fx.worker[w]
       IN  fx' = [fx EXCEPT !.replies = Append(@, [id |-> me.visit_id, h3 |-> me.h3_index,
                                                   user_id |-> me.visit.user_id,
                                                   resolution |-> 9]),
                            !.worker[w] = IdleWorker]
    /\ UNCHANGED planVars

VisitsNext ==
    \E w \in Workers :
        \/ VisitBegin(w)
        \/ VisitAppend(w)
        \/ VisitHexes(w)
        \/ VisitReturn(w)

SpecVisits == VisitsInit /\ [][VisitsNext]_vars

(***************************************************************************)
(* The in-memory visits API: list_recent_visits after create_visit calls   *)
(* served one at a time.  The requests follow a script: who makes the      *)
(* n-th visit.                                                             *)
(***************************************************************************)
RecentWindow == 200
MaxVisits == 203

Scripts == {"u1 once", "u1 twice", "in turn"}

\* the visit of the n-th request of a script
VisitAt(script, n) ==
    LET user == CASE script = "u1 once" -> IF n <= 1 THEN "u1" ELSE "u2"
                  [] script = "u1 twice" -> IF n <= 2 THEN "u1" ELSE "u2"
                  [] script = "in turn" -> IF n % 2 = 1 THEN "u1" ELSE "u2"
    IN  [user_id |-> user,
         place |-> IF n % 3 = 0 THEN "ponce city market" ELSE "piedmont park"]

\* the user_id query parameter: absent, or a list of ids
UserIdFilters == {None, Some(<<"u1">>), Some(<<"u2">>), Some(<<"u1", "u2">>), Some(<<"u3">>)}

Reversed(items) == [i \in DOMAIN items |-> items[Len(items) + 1 - i]]

\* list_recent_visits(user_id) on the visits recorded so far
list_recent_visits(visits, user_id) ==
    LET first == IF Len(visits) > RecentWindow THEN Len(visits) - RecentWindow + 1 ELSE 1
        latest == SubSeq(visits, first, Len(visits))
        items == IF user_id # None /\ user_id[1] # <<>>
                 THEN SelectSeq(latest, LAMBDA v : v.user_id \in Range(user_id[1]))
                 ELSE latest
    IN  Reversed(items)

RecentInit ==
    /\ NoPlan
    /\ \E script \in Scripts :
           fx = [op |-> "list_recent_visits", script |-> script, INMEM_VISITS |-> <<>>,
                 INMEM_USER_HEXES |-> [u \in VisitUsers |-> {}],
                 user_id |-> None, result |-> None]

\* create_visit, from the request to the reply
CreateVisit ==
    /\ fx.op = "list_recent_visits"
    /\ Len(fx.INMEM_VISITS) < MaxVisits
    /\ LET visit == VisitAt(fx.script, Len(fx.INMEM_VISITS) + 1)
           h3_index == latlng_to_h3(visit.place)
           visit_id == Len(fx.INMEM_VISITS) + 1
       IN  fx' = [fx EXCEPT !.INMEM_VISITS = Append(@, VisitPayload(visit, visit_id, h3_index)),
                            !.INMEM_USER_HEXES[visit.user_id] = @ \cup {h3_index},
                            !.user_id = None, !.result = None]
    /\ UNCHANGED planVars

ListRecentVisits ==
    /\ fx.op = "list_recent_visits"
    /\ fx.result = None
    /\ \E user_id \in UserIdFilters :
           fx' = [fx EXCEPT !.user_id = user_id,
                            !.result = Some(list_recent_visits(fx.INMEM_VISITS, user_id))]
    /\ UNCHANGED planVars

RecentNext ==
    \/ CreateVisit
    \/ ListRecentVisits

SpecRecent == RecentInit /\ [][RecentNext]_vars

(***************************************************************************)
(* Properties.                                                             *)
(***************************************************************************)
ListenerEntry == Entry("Listener: parsed vibes/time/budget")
Decide == <<"decide">>

\* how many times the StepReasoner was asked so far
Decisions == Count(Decide, calls)

\* the collaborator calls made since the StepReasoner was last asked
CallsSinceDecide ==
    LET asked == {i \in DOMAIN calls : calls[i] = Decide}
        at == CHOOSE i \in asked : \A j \in asked : j <= i
    IN  IF asked = {} THEN calls ELSE SubSeq(calls, at + 1, Len(calls))

\* the action log as it stood before its last entry was appended
LogBeforeLast == SubSeq(action_log, 1, Len(action_log) - 1)

Returned == pc = "done" /\ path = "agentic"

\* C1: in any run of the controller the StepReasoner is asked at most 7 times,
\* whatever it answers; after the 7th decision no further one is requested.
C1_DecisionBound ==
    /\ Decisions <= 7
    /\ Decisions = step
    /\ Decisions = 7 => pc \in {"exited", "done", "raised"}

C1_Witness ==
    /\ pc = "done"
    /\ Decisions = 7
    /\ Len(action_log) = 9
    /\ \A i \in 2..8 : action_log[i] = Entry("Controller:get_tastes")

\* C2: for every sequence of StepReasoner replies the controller returns a
\* complete PlanResponse whose action log is non-empty and starts with the
\* Listener entry, and no path raises an error to the caller.
C2_AlwaysReturns ==
    /\ pc # "raised"
    /\ Returned =>
          /\ response # None
          /\ response[1].action_log # <<>>
          /\ Head(response[1].action_log) = ListenerEntry

\* C3: an action outside the known ones stops the loop and the controller
\* returns the same fallback plan it builds when no action is returned.
C3_UnknownActionGivesFallback ==
    (Returned /\ last.exit = "break") =>
        response[1] = DefaultPlan(req, state, LogBeforeLast)

\* C4: when the reply holds no action the controller terminates at that
\* iteration: the fallback pipeline runs exactly once (TasteSource once per
\* requested user id in request order, then TasteMerger, CandidateSource and
\* Ranker once each), its plan is returned, the StepReasoner is not asked again.
C4_FallbackOnce ==
    last.exit = "fallback" =>
        /\ pc = "done"
        /\ ~ENABLED Next
        /\ CallsSinceDecide =
              [i \in DOMAIN req.user_ids |-> <<"taste", req.user_ids[i]>>]
              \o << <<"merge">>, <<"find">>, <<"writer">> >>
        /\ Count(<<"writer">>, calls) = 1
        /\ response = default_plan
        /\ plan_result = response
        /\ response[1].action_log =
              action_log \o <<Entry("Planner: merged tastes & fetched activities (fallback)"),
                              EntryN("Writer: scored candidates", Len(response[1].candidates))>>
        /\ response[1].candidates =
              WriterRun([merged |-> FallbackMerged(req, state),
                         raw_candidates |-> tool_find_activities(FallbackMerged(req, state))])

C4_Witness ==
    /\ last.exit = "fallback"
    /\ step = 3
    /\ Len(req.user_ids) = 2
    /\ Len(response[1].candidates) > 0

C6_FinalizeUsesHeldState ==
    last.exit = "finalize" =>
        /\ pc = "done"
        /\ ~ENABLED Next
        /\ CallsSinceDecide = << <<"writer">> >>
        /\ response[1].candidates =
              WriterRun([merged |-> state.merged, raw_candidates |-> state.raw_candidates])
        /\ Len(response[1].candidates) = Len(state.raw_candidates)
        /\ ~Truthy(state.merged) => response[1].candidates = <<>>
        /\ response[1].action_log = action_log
        /\ action_log[Len(action_log)] =
              EntryN("Writer: scored candidates", Len(state.raw_candidates))

C6_Witness ==
    /\ last.exit = "finalize"
    /\ Len(response[1].candidates) > 1
    /\ Count(<<"find">>, calls) = 1

\* C7: if 7 decisions are executed without a finalize, the response is computed
\* with the finalize logic applied to the ControllerState accumulated so far:
\* candidates, merged_vibe and energy_profile are those a finalize decision
\* taken in that state would return.
C7_ExhaustionFinalizes ==
    (Returned /\ last.exit = "exhausted") =>
        LET f == FinalizeResponse(state, LogBeforeLast)
        IN  /\ Decisions = 7
            /\ response # None
            /\ response[1].candidates = f.candidates
            /\ response[1].merged_vibe = f.merged_vibe
            /\ response[1].energy_profile = f.energy_profile
            /\ response[1].query_normalized = f.query_normalized

C7_Witness ==
    /\ Returned /\ last.exit = "exhausted"
    /\ Truthy(state.merged)
    /\ response[1].merged_vibe # "chill"
    /\ Len(response[1].candidates) > 0

FindCalledWithMerged ==
    \A i \in DOMAIN calls :
        calls[i] = <<"find">> => \E j \in 1..(i - 1) : calls[j] = <<"merge">>

MergeStep == action_log' = Append(action_log, Entry("Controller:merge_tastes"))
FindStep == action_log' = Append(action_log, Entry("Controller:find_activities"))

\* C8: whatever the order of the known actions, none fails for lack of a
\* prerequisite: merge_tastes with no tastes held first fetches the tastes of
\* the request's users, find_activities with no merged profile held first
\* builds one, and CandidateSource is never called before a merge.
C8_PreconditionRepair ==
    /\ [](FindCalledWithMerged)
    /\ [][/\ MergeStep =>
                /\ pc' # "raised"
                /\ state.tastes = <<>> =>
                      /\ state'.tastes = Fetch(req.user_ids)
                      /\ calls' = calls \o <<Decide>> \o FetchCalls(req.user_ids)
                                  \o << <<"merge">> >>
                /\ Truthy(state'.merged)
          /\ FindStep =>
                /\ pc' # "raised"
                /\ Truthy(state'.merged)
                /\ ~Truthy(state.merged) =>
                      calls' = calls \o <<Decide, <<"merge">>, <<"find">> >>
                /\ state'.raw_candidates = tool_find_activities(state'.merged)]_vars

C8_Witness ==
    /\ step = 2
    /\ action_log = <<ListenerEntry, Entry("Controller:find_activities"),
                      Entry("Controller:merge_tastes")>>
    /\ Len(req.user_ids) = 2
    /\ Len(state.tastes) = 2

\* C9: every malformed StepReasoner reply is handled exactly like a reply
\* without an action: the controller returns the fallback plan and does not
\* raise.
C9_MalformedReplyGivesFallback ==
    last.malformed =>
        /\ pc # "raised"
        /\ last.exit = "fallback"

\* C10: plan hands the request to the controller if and only if USE_AGENTIC is
\* "1" and the agentic module was imported; then the orchestrator runs no stage
\* of its own and returns the controller's response unchanged; otherwise it
\* runs the fixed pipeline and never calls the controller.
C10_SingleSwitch ==
    /\ path = "agentic" <=> (pc # "entry" /\ env.USE_AGENTIC = Some("1") /\ env.agentic_plan)
    /\ path = "fixed" <=> (pc # "entry" /\ ~(env.USE_AGENTIC = Some("1") /\ env.agentic_plan))
    /\ (path = "agentic" /\ pc = "done") =>
          /\ plan_result = response
          /\ Count(<<"listener">>, calls) = 1
    /\ path = "fixed" =>
          /\ pc = "done"
          /\ Decisions = 0 /\ response = None /\ action_log = <<>>
          /\ plan_result # None
          /\ Len(plan_result[1].action_log) = 3
          /\ calls = << <<"listener">> >>
                     \o [i \in DOMAIN req.user_ids |-> <<"taste", req.user_ids[i]>>]
                     \o << <<"merge">>, <<"find">>, <<"writer">> >>

C10_Witness ==
    /\ path = "agentic" /\ pc = "done"
    /\ plan_result # None
    /\ Len(plan_result[1].action_log) > 3

(***************************************************************************)
(* C11: the action log of the fixed pipeline.                              *)
(***************************************************************************)
\* the pipeline stage a collaborator call belongs to
StageOf(call) ==
    CASE call[1] = "listener" -> "intent extraction"
      [] call[1] \in {"taste", "merge"} -> "taste fetch/merge"
      [] call[1] = "find" -> "candidate discovery"
      [] call[1] = "writer" -> "ranking"
      [] OTHER -> "decision"

\* the stages a run went through, in order, each run of calls of one stage once
StagesRun ==
    LET st == [i \in DOMAIN calls |-> StageOf(calls[i])]
    IN  SelectSeq([i \in DOMAIN st |-> <<i, st[i]>>],
                  LAMBDA p : p[1] = 1 \/ st[p[1] - 1] # p[2])

FixedReturned == pc = "done" /\ path = "fixed"
PlannerEntry == Entry("Planner: merged tastes & fetched activities")

\* C11 as stated: the fixed pipeline's action log has exactly one line for
\* each of the stages it ran (intent extraction, taste fetch/merge, candidate
\* discovery, ranking), in stage order, and ends with the Writer entry.
C11_OneLinePerStage ==
    FixedReturned =>
        LET log == plan_result[1].action_log
        IN  /\ Len(log) = Len(StagesRun)
            /\ log[Len(log)][1] = "Writer: scored candidates"

\* C11 amended: the fixed pipeline runs its four stages in order and logs
\* exactly three lines, the Listener entry, one Planner entry that stands for
\* taste fetch/merge and candidate discovery together, and last the Writer
\* entry carrying the number of cards returned.
C11_OneLinePerAgent ==
    FixedReturned =>
        LET resp == plan_result[1]
        IN  /\ [i \in DOMAIN StagesRun |-> StagesRun[i][2]]
                   = <<"intent extraction", "taste fetch/merge",
                       "candidate discovery", "ranking">>
            /\ resp.action_log
                   = <<ListenerEntry, PlannerEntry,
                       EntryN("Writer: scored candidates", Len(resp.candidates))>>

\* a fixed-pipeline run that fetched tastes and returned ranked cards
C11_Witness ==
    /\ FixedReturned
    /\ Len(req.user_ids) = 2
    /\ Len(plan_result[1].candidates) > 0
    /\ Len(plan_result[1].action_log) = 3

(***************************************************************************)
(* C12: the deterministic path for a request that names no user.           *)
(***************************************************************************)
\* the deterministic path has been taken: the fixed pipeline or the fallback
DeterministicReturned == FixedReturned \/ (Returned /\ last.exit = "fallback")

\* the collaborator calls the deterministic path made
DeterministicCalls == IF path = "fixed" THEN calls ELSE CallsSinceDecide

\* the merged profile the deterministic path built
DeterministicMerged ==
    IF path = "fixed"
    THEN PlannerRun(req.user_ids, ListenerRun(req.query_text),
                    StrOr(req.location_hint, "Boston, MA"), req.time_window).merged
    ELSE FallbackMerged(req, state)

Scored == fx.op = "_event_score" /\ fx.result # None

\* a dict without key k
Without(d, k) == [x \in DOMAIN d \ {k} |-> d[x]]

\* the query vibe as the scorer compares it: blank when absent or only spaces
WantedVibe ==
    LET raw == Get(fx.query, "vibe", None)
    IN  IF raw \in {None, Some(""), Some("   ")} THEN "" ELSE Lower(Strip(raw[1]))

\* what the query's vibe adds to the score of the event
VibePart == fx.result[1] - event_score(fx.event, Without(fx.query, "vibe"))

ScenarioQuery == [vibe |-> Some("music"), budget_cap |-> Some(20)]

\* C13: the vibe of the query adds 2.5 when the candidate's vibe equals it
\* ignoring case, 1.5 when it does not but the query vibe is among the
\* candidate's tags, never both, and nothing when the query vibe is empty; the
\* query {vibe: music, budget_cap: 20} scores the candidate {vibe: music,
\* price: $, tags: [indie]} exactly 3.5.
C13_VibeSignal ==
    Scored =>
        LET etags == Get(fx.event, "tags", <<>>)
            exact == WantedVibe # "" /\ Lower(Get(fx.event, "vibe", "")) = WantedVibe
            tagged == WantedVibe # ""
                      /\ \E i \in DOMAIN etags :
                            etags[i] # "" /\ Lower(Strip(etags[i])) = WantedVibe
        IN  /\ exact => VibePart = 25
            /\ (~exact /\ tagged) => VibePart = 15
            /\ (~exact /\ ~tagged) => VibePart = 0
            /\ WantedVibe = "" => VibePart = 0
            /\ (fx.event.id = "x-scenario" /\ fx.query = ScenarioQuery) => fx.result = Some(35)

\* a candidate whose vibe and whose tags both carry the query vibe has been scored
C13_Witness ==
    /\ Scored
    /\ fx.event.id = "x-both"
    /\ Get(fx.query, "vibe", None) = Some(" Music ")
    /\ VibePart = 25

\* C14: the budget level of a cap is 0 up to 0, 1 up to 20, 2 up to 45, 3 up
\* to 75 and 4 above, so it never decreases as the cap grows; the price bands
\* free, $, $$, $$$, $$$$ have levels 0, 1, 2, 3, 4.
C14_BudgetAndPriceLevels ==
    /\ (fx.op = "_budget_to_level" /\ fx.result # None) =>
           LET cap == fx.budget_cap
               level == fx.result[1]
           IN  /\ cap <= 0 => level = 0
               /\ (0 < cap /\ cap <= 20) => level = 1
               /\ (20 < cap /\ cap <= 45) => level = 2
               /\ (45 < cap /\ cap <= 75) => level = 3
               /\ 75 < cap => level = 4
               /\ \A lower \in BudgetCaps : lower <= cap => BudgetLevel(lower) <= level
    /\ (fx.op = "_price_to_level" /\ fx.result # None) =>
           /\ fx.value = Some("free") => fx.result[1] = Some(0)
           /\ fx.value = Some("$") => fx.result[1] = Some(1)
           /\ fx.value = Some("$$") => fx.result[1] = Some(2)
           /\ fx.value = Some("$$$") => fx.result[1] = Some(3)
           /\ fx.value = Some("$$$$") => fx.result[1] = Some(4)

\* the level of a cap that lies on a boundary has been computed
C14_Witness == fx.op = "_budget_to_level" /\ fx.budget_cap = 45 /\ fx.result = Some(2)

\* what the query's budget cap adds to the score of the event
BudgetPart == fx.result[1] - event_score(fx.event, Without(fx.query, "budget_cap"))

\* C15: the budget cap of the query adds to the score only when it is set and
\* the candidate's price is a recognized band: +1.0 when the band's level is
\* at most the level of the cap, else -1.0; with no cap, or with a missing or
\* unrecognized price, it adds nothing, and the candidate is scored all the same.
C15_BudgetFit ==
    Scored =>
        LET cap == Get(fx.query, "budget_cap", None)
            price == Get(fx.event, "price", None)
            band == IF price = None THEN "" ELSE Lower(Strip(price[1]))
            capLevel == CASE cap = Some(0) -> 0 [] cap = Some(20) -> 1
                          [] cap = Some(50) -> 3 [] cap = Some(100) -> 4
            bandLevel == CASE band = "free" -> 0 [] band = "$" -> 1 [] band = "$$" -> 2
                           [] band = "$$$" -> 3 [] band = "$$$$" -> 4
        IN  /\ (cap # None /\ band \in PriceBands) =>
                   BudgetPart = IF bandLevel <= capLevel THEN 10 ELSE -10
            /\ (cap = None \/ band \notin PriceBands) => BudgetPart = 0
            /\ fx.result[1] \in Int

\* a candidate with an unrecognized price has been scored under a budget cap
C15_Witness ==
    /\ Scored
    /\ fx.event.id = "x-odd-price"
    /\ Get(fx.query, "budget_cap", None) = Some(20)
    /\ Get(fx.query, "vibe", None) = Some("music")
    /\ fx.result = Some(25)

\* the catalogue in discovery order: google_places entries, then eventbrite
AllMockEvents == MOCK_EVENTS["google_places"] \o MOCK_EVENTS["eventbrite"]
CatalogPos(e) == CHOOSE i \in DOMAIN AllMockEvents : AllMockEvents[i].id = e.id

Listed == fx.op \in {"get_tool_candidates", "search_mock_events"} /\ fx.result # None
ListQuery == IF fx.op = "search_mock_events" THEN fx.filters ELSE fx.query

\* C16: the results of get_tool_candidates and of search_mock_events are in
\* descending score order, and results that score the same are in catalogue
\* order, google_places entries before eventbrite entries.
C16_OrderedByScoreThenCatalog ==
    Listed =>
        LET out == fx.result[1]
        IN  \A i, j \in DOMAIN out :
                i < j =>
                    LET si == event_score(out[i], ListQuery)
                        sj == event_score(out[j], ListQuery)
                    IN  /\ si >= sj
                        /\ si = sj => CatalogPos(out[i]) < CatalogPos(out[j])

\* a search across both providers whose result holds a tie between a
\* google_places entry and an eventbrite entry, behind a higher-scoring
\* eventbrite entry
C16_Witness ==
    /\ fx.op = "search_mock_events" /\ fx.result # None
    /\ LET out == fx.result[1]
       IN  \E i, j, k \in DOMAIN out :
               /\ i < j /\ j < k
               /\ out[i].source = "eventbrite"
               /\ out[j].source = "google_places" /\ out[k].source = "eventbrite"
               /\ event_score(out[i], fx.filters) > event_score(out[j], fx.filters)
               /\ event_score(out[j], fx.filters) = event_score(out[k], fx.filters)

(***************************************************************************)
(* C17: the action log of a controller run.                                *)
(***************************************************************************)
\* the 'Controller:<action>' entry of the action that left an observation
ControllerEntry(obs) ==
    CASE obs[1] = "Fetched tastes for users" -> Entry("Controller:get_tastes")
      [] obs[1] = "Merged tastes" -> Entry("Controller:merge_tastes")
      [] obs[1] = "Found activities" -> Entry("Controller:find_activities")

\* the entries of the actions executed so far, in execution order
ControllerEntries == [i \in DOMAIN state.observations |-> ControllerEntry(state.observations[i])]

\* the entries that close the returned log, by the way the run ended
TerminalEntries ==
    LET n == Len(response[1].candidates)
    IN  CASE last.exit = "fallback" ->
                <<Entry("Planner: merged tastes & fetched activities (fallback)"),
                  EntryN("Writer: scored candidates", n)>>
          [] last.exit = "finalize" -> <<EntryN("Writer: scored candidates", n)>>
          [] OTHER -> <<EntryN("Writer: scored candidates (loop-exit)", n)>>

IsPrefix(a, b) == Len(a) <= Len(b) /\ SubSeq(b, 1, Len(a)) = a

LogInOrder ==
    path = "agentic" =>
        /\ pc # "done" => action_log = <<ListenerEntry>> \o ControllerEntries
        /\ pc = "done" =>
               response[1].action_log
                   = <<ListenerEntry>> \o ControllerEntries \o TerminalEntries

LogGrows ==
    /\ IsPrefix(action_log, action_log')
    /\ Len(action_log') <= Len(action_log) + 1
    /\ (path = "agentic" /\ Len(state'.observations) = Len(state.observations) + 1) =>
           action_log' = Append(action_log,
                                ControllerEntry(state'.observations[Len(state'.observations)]))
    /\ (path = "agentic" /\ state'.observations = state.observations) =>
           (action_log' = action_log \/ pc' = "done")

\* C17: during a controller run the action log only grows at its end; each
\* executed get_tastes, merge_tastes or find_activities adds exactly one
\* 'Controller:<action>' entry, repeats included; the returned log is the
\* Listener entry, those entries in execution order, then the terminal entries.
C17_AppendOnlyLog == [](LogInOrder) /\ [][LogGrows]_vars

\* a finalized run that fetched tastes twice and merged in between
C17_Witness ==
    /\ Returned /\ last.exit = "finalize"
    /\ LET log == response[1].action_log
       IN  /\ Len(log) = 5
           /\ log[2] = Entry("Controller:get_tastes")
           /\ log[3] = Entry("Controller:merge_tastes")
           /\ log[4] = Entry("Controller:get_tastes")

(***************************************************************************)
(* C19: which vibe the merge-with-overrides step takes.                    *)
(***************************************************************************)
\* the taste profiles name at least one vibe
TastesYieldVibe(tastes) == \E i \in DOMAIN tastes : tastes[i].vibes # <<>>

\* the vibe value a controller reply may carry as an override
OverrideVibes == {g.overrides.val["vibe"] : g \in {a \in WellFormedArgs :
                                                     "vibe" \in DOMAIN a.overrides.val}}

FallbackReturned == Returned /\ last.exit = "fallback"

\* C19 as stated: when the fetched taste profiles yield a group vibe, that
\* vibe is the merged profile's vibe and the response's merged_vibe, and the
\* Intent's top vibe is used only when the tastes yield none.
C19_TasteVibeFirst ==
    /\ (FallbackReturned /\ TastesYieldVibe(Fetch(req.user_ids))) =>
           response[1].merged_vibe = tool_merge_tastes(Fetch(req.user_ids))["merged_vibe"]
    /\ (path = "agentic" /\ Truthy(state.merged) /\ TastesYieldVibe(state.tastes)
        /\ state.merged["vibe"] \notin OverrideVibes) =>
           state.merged["vibe"] = state.merged["merged_vibe"]

\* C19 amended: the Intent's top vibe comes first.  The fallback's merged_vibe
\* is the Intent's top vibe, every card it returns was found and ranked for
\* that vibe, and a merged profile held by the controller has the Intent's
\* top vibe or the vibe a merge_tastes override gave, whatever group vibe the
\* taste profiles yield.
C19_IntentVibeFirst ==
    LET intent == ListenerRun(req.query_text).primary_vibes[1]
    IN  /\ FallbackReturned =>
               LET cards == response[1].candidates
               IN  /\ response[1].merged_vibe = intent
                   /\ \A i \in DOMAIN cards :
                          \E r \in Range(cards[i].reasons) :
                              r \in {<<"matches your group's vibe", intent>>,
                                     <<"tagged with", intent>>}
        /\ (path = "agentic" /\ Truthy(state.merged)) =>
               state.merged["vibe"] \in {intent} \cup OverrideVibes

\* the fallback for users whose tastes yield the group vibe "music" and a
\* request whose Intent is "chill": the cards are those found for "chill"
C19_Witness ==
    /\ FallbackReturned
    /\ tool_merge_tastes(Fetch(req.user_ids))["merged_vibe"] = "music"
    /\ response[1].merged_vibe = "chill"
    /\ Len(response[1].candidates) > 0

(***************************************************************************)
(* C20: the three merge-with-overrides sites.                              *)
(***************************************************************************)
\* C20: for the same request and Listener output the fallback merge,
\* merge_tastes without overrides and the merge inside find_activities give
\* the same merged profile; in particular the profile held after a first
\* decision of find_activities, or of merge_tastes without overrides, is the
\* one merged from the tastes of the request's users.
C20_MergeSitesAgree ==
    (path = "agentic" /\ step = 1 /\ Truthy(state.merged)
     /\ state.merged["location"] = state.location) =>
        /\ state.merged = FallbackMerged(req, SeedState(req))
        /\ state.merged = MergeTastesMerged(SeedState(req), Fetch(req.user_ids), EmptyDict)

(***************************************************************************)
(* C18: two concurrent controller runs (SpecTwo).                          *)
(***************************************************************************)
\* a run alone: the locals, position and result after the given answers
RECURSIVE Replay(_, _, _)
Replay(r, out, answers) ==
    IF answers = <<>> THEN out
    ELSE Replay(r, RunStep(r, out.loc, Head(answers)), Tail(answers))

SoloRun(r, answers) ==
    Replay(r, [loc |-> SeedFrame(r), pc |-> "deciding", result |-> None], answers)

FirstPresent(opts) ==
    IF \A i \in DOMAIN opts : opts[i] = None THEN None
    ELSE opts[CHOOSE i \in DOMAIN opts :
                  opts[i] # None /\ \A j \in 1..(i - 1) : opts[j] = None]

\* the override of a field, None when the key is absent or its value empty
Given(k) ==
    IF k \in DOMAIN fx.overrides /\ fx.overrides[k] # "" THEN Some(fx.overrides[k]) ELSE None

\* the overrides cut down to the one field k
Only(k) == [x \in DOMAIN fx.overrides \cap {k} |-> fx.overrides[x]]

\* C21: merge_tastes resolves location, time_window, vibe and energy_level
\* each on its own: the override when given and not empty, else the
\* request's value (location, time_window), else the Listener's value (time
\* hint, top vibe, energy level), else the default; the result for a field is
\* the same whatever the overrides of the other fields are.
C21_OverridePrecedence ==
    (fx.op = "merge_tastes" /\ fx.result # None) =>
        LET merged == fx.result[1]
            r == fx.req
            intent == ListenerRun(r.query_text)
            asked == IF r.time_window \in {None, Some(""), Some("   ")} THEN None
                     ELSE r.time_window
            hinted == IF r.location_hint = None THEN None
                      ELSE Some(Strip(r.location_hint[1]))
            st == SeedState(r)
        IN  /\ merged["location"]
                   = FirstPresent(<<Given("location"), hinted, Some("Boston, MA")>>)[1]
            /\ merged["time_window"]
                   = FirstPresent(<<Given("time_window"), asked, intent.time_hint>>)
            /\ merged["vibe"]
                   = FirstPresent(<<Given("vibe"), Some(intent.primary_vibes[1]),
                                    Some("chill")>>)[1]
            /\ merged["energy_level"]
                   = FirstPresent(<<Given("energy_level"), Some(intent.energy_level),
                                    Some("medium")>>)[1]
            /\ \A k \in {"location", "time_window", "vibe", "energy_level"} :
                   merged[k] = MergeTastesMerged(st, Fetch(st.user_ids), Only(k))[k]

\* a merge with an empty location override, a vibe override and no
\* time_window override, for a request without time window: the location is
\* the request's, the vibe the override's, the time window the Listener's hint
C21_Witness ==
    /\ fx.op = "merge_tastes" /\ fx.result # None
    /\ fx.overrides = [location |-> "", vibe |-> "outdoors"]
    /\ fx.req.time_window = None
    /\ fx.result[1]["location"] = "Cambridge, MA"
    /\ fx.result[1]["vibe"] = "outdoors"
    /\ fx.result[1]["time_window"] = Some("tonight")

(***************************************************************************)
(* C22: what the three state-changing decisions touch.                     *)
(***************************************************************************)
GetStep == action_log' = Append(action_log, Entry("Controller:get_tastes"))

\* the user-id lists a get_tastes reply may carry
ArgUserIds == {g.user_ids.val : g \in {a \in WellFormedArgs : a.user_ids.val # <<>>}}

\* tastes holds one profile per id of ids, in order
ProfilesOf(tastes, ids) ==
    /\ Len(tastes) = Len(ids)
    /\ \A i \in DOMAIN ids : tastes[i] = tool_get_user_taste(ids[i])
                             /\ tastes[i].user_id = ids[i]

OneObservation ==
    /\ Len(state'.observations) = Len(state.observations) + 1
    /\ SubSeq(state'.observations, 1, Len(state.observations)) = state.observations

C22_Frame ==
    /\ GetStep =>
           /\ \E ids \in ArgUserIds \cup {req.user_ids} : ProfilesOf(state'.tastes, ids)
           /\ OneObservation
           /\ state'.merged = state.merged
           /\ state'.raw_candidates = state.raw_candidates
           /\ state'.query = state.query
           /\ state'.location = state.location
           /\ state'.time_window = state.time_window
    /\ MergeStep => (state'.raw_candidates = state.raw_candidates /\ OneObservation)
    /\ FindStep => (state'.tastes = state.tastes /\ OneObservation)

Merged == Count(<<"merge">>, calls) > 0

\* C23: every response of the controller has a merged_vibe and an
\* energy_profile: the vibe and energy level of the merged profile when the
\* run merged, and "chill" and "medium" when it finalized, or left the loop,
\* without any merge.
C23_VibeAndEnergyPresent ==
    Returned =>
        LET resp == response[1]
        IN  /\ resp.merged_vibe \in {"chill", "music", "outdoors"}
            /\ resp.energy_profile \in {"low", "medium", "high"}
            /\ last.exit = "fallback" =>
                   /\ Merged
                   /\ resp.merged_vibe = FallbackMerged(req, state)["vibe"]
                   /\ resp.energy_profile = FallbackMerged(req, state)["energy_level"]
            /\ (last.exit # "fallback" /\ Merged) =>
                   /\ resp.merged_vibe = state.merged["vibe"]
                   /\ resp.energy_profile = state.merged["energy_level"]
            /\ (last.exit # "fallback" /\ ~Merged) =>
                   /\ resp.merged_vibe = "chill"
                   /\ resp.energy_profile = "medium"

\* a run for "live music tonight" finalized by its first decision, without
\* any merge: the response says "chill" and "medium"
C23_Witness ==
    /\ Returned /\ last.exit = "finalize" /\ step = 1
    /\ state.listener.primary_vibes = <<"music">>
    /\ response[1].merged_vibe = "chill"
    /\ response[1].energy_profile = "medium"

(***************************************************************************)
(* C24: keyword overlap in _event_score (SpecMock).                        *)
(***************************************************************************)
\* the distinct terms of a list, ignoring case and outer blanks
Terms(items) == {Lower(Strip(items[i])) : i \in {j \in DOMAIN items : items[j] # ""}}

\* what the query's likes, and its tags, add to the score of the event
LikesPart == fx.result[1] - event_score(fx.event, Without(fx.query, "likes"))
TagsPart == fx.result[1] - event_score(fx.event, Without(fx.query, "tags"))

\* the lists the model passes as likes or tags
KeywordLists == {c[1] : c \in (LikesChoices \cup TagsChoices) \ {<<>>}}

\* C24: the score gains 1.2 for every distinct liked keyword and 1.0 for
\* every distinct tag keyword that is among the candidate's tags, ignoring
\* case; lists with the same terms in another order or with repeats score
\* the same.
C24_KeywordOverlap ==
    Scored =>
        LET likes == Get(fx.query, "likes", <<>>)
            tags == Get(fx.query, "tags", <<>>)
            etags == Terms(Get(fx.event, "tags", <<>>))
        IN  /\ LikesPart = 12 * Cardinality(Terms(likes) \cap etags)
            /\ TagsPart = 10 * Cardinality(Terms(tags) \cap etags)
            /\ \A other \in KeywordLists :
                   /\ Terms(other) = Terms(likes) =>
                          event_score(fx.event, Put(fx.query, "likes", other)) = fx.result[1]
                   /\ Terms(other) = Terms(tags) =>
                          event_score(fx.event, Put(fx.query, "tags", other)) = fx.result[1]

\* a candidate with repeated tags scored against likes and tags that repeat
\* a term in different case: two liked terms and two tag terms count
C24_Witness ==
    /\ Scored
    /\ fx.event.id = "x-dup-tags"
    /\ Get(fx.query, "likes", <<>>) = <<"Indie", "indie", " nightlife ">>
    /\ Get(fx.query, "tags", <<>>) = <<"art", "Market", "market">>
    /\ LikesPart = 24
    /\ TagsPart = 20

(***************************************************************************)
(* C25: the filters of search_mock_events (SpecMock).                      *)
(***************************************************************************)
Searched == fx.op = "search_mock_events" /\ fx.result # None

\* the filters as the search reads them: stripped, in lower case, "" when
\* absent or None
FilterText(k) == Lower(Strip(StrOr(Get(fx.filters, k, None), "")))

\* the limit in force
LimitInForce ==
    LET given == Get(fx.filters, "limit", None)
    IN  IF given = None \/ given = Some(0) THEN 25 ELSE given[1]

\* event e passes every active filter, q being looked up in e[text]
Passes(e, text) ==
    /\ FilterText("provider") \in Range(MOCK_PROVIDERS) => e.source = FilterText("provider")
    /\ FilterText("vibe") # "" => Lower(e.vibe) = FilterText("vibe")
    /\ FilterText("q") # "" => FilterText("q") \in e[text]

\* the result holds only events that pass, and every event that passes
\* unless the limit cut the list
SoundAndComplete(text) ==
    LET found == fx.result[1]
    IN  /\ \A i \in DOMAIN found : Passes(found[i], text)
        /\ \/ Len(found) = LimitInForce
           \/ \A i \in DOMAIN AllMockEvents :
                  Passes(AllMockEvents[i], text) =>
                      \E j \in DOMAIN found : found[j] = AllMockEvents[i]

\* C25 as stated: every returned event passes the provider, vibe and q
\* filters, q being contained in its title, its summary or its address, and
\* no passing event is dropped before the limit.
C25_FiltersOnFields == Searched => SoundAndComplete("fields")

\* C25: every returned event passes the provider, vibe and q filters, q
\* being contained in the text made of its title, summary and address joined
\* by blanks, and no passing event is dropped before the limit.
C25_FiltersOnJoinedText == Searched => SoundAndComplete("hay")

\* a search of one provider, with a vibe and a q that begins in the title
\* and ends in the summary of the event it finds
C25_Witness ==
    /\ Searched
    /\ Get(fx.filters, "provider", None) = Some("google_places")
    /\ Get(fx.filters, "vibe", None) = Some("creative")
    /\ Get(fx.filters, "q", None) = Some("market open-air")
    /\ Len(fx.result[1]) = 1
    /\ fx.result[1][1].id = "gp-bow-market"

(***************************************************************************)
(* C26: the limits of search_mock_events and get_tool_candidates.          *)
(***************************************************************************)
\* the score-ordered filtered list: what the search returns when no limit is
\* given, the catalogue being shorter than the limit of 25 then in force
OrderedFiltered == search_mock_events(Without(fx.filters, "limit"))

Candidates == fx.op = "get_tool_candidates" /\ fx.result # None

\* C26: search_mock_events returns at most limit events, 25 when the limit
\* is absent, None or 0, and they are the first limit elements of the
\* score-ordered filtered list; get_tool_candidates returns at most 20
\* events and none for a provider it does not know.
C26_Limits ==
    /\ Searched =>
          LET found == fx.result[1]
              cut == IF LimitInForce < Len(OrderedFiltered) THEN LimitInForce
                     ELSE Len(OrderedFiltered)
          IN  /\ Len(found) <= LimitInForce
              /\ Get(fx.filters, "limit", None) \in {None, Some(0)} => LimitInForce = 25
              /\ found = SubSeq(OrderedFiltered, 1, cut)
    /\ Candidates =>
          /\ Len(fx.result[1]) <= 20
          /\ fx.provider \notin Range(MOCK_PROVIDERS) => fx.result[1] = <<>>

\* a search whose limit of 3 cuts a longer list
C26_Witness ==
    /\ Searched
    /\ Get(fx.filters, "limit", None) = Some(3)
    /\ Len(fx.result[1]) = 3
    /\ Len(OrderedFiltered) > 3

(***************************************************************************)
(* C27: agent_discover and the failures of the ADK (SpecDiscover).         *)
(***************************************************************************)
Discovering == fx.op = "agent_discover"
Discovered == Discovering /\ fx.at = "done"

\* the ADK client is unavailable, raises, returns no content, or returns
\* output that cannot be parsed or holds no keyword
AdkFails ==
    LET w == fx.world
    IN  \/ ~(w.AgentClient /\ w.types /\ w.project_id /\ w.credentials /\ w.constructs)
        \/ w.session.kind \in {"raises", "no content"}
        \/ /\ w.session.kind = "text"
           /\ LET parsed == parse_agent_payload(w.session.text)
              IN  parsed.exc # None \/ parsed.keywords = <<>>

\* C27: no failure of the ADK leaves agent_discover: when the ADK fails the
\* keywords are those of _fallback_keywords(prompt, friends); in every case
\* tool_find_activities is called exactly once, with distance_cap 10, and
\* the result holds summary, keywords and activities.
C27_NoAdkFailureEscapes ==
    Discovering =>
        /\ fx.at # "raised"
        /\ Len(fx.finds) = (IF fx.at \in {"return", "done"} THEN 1 ELSE 0)
        /\ \A i \in DOMAIN fx.finds : fx.finds[i].distance_cap = 10
        /\ Discovered =>
              /\ fx.result # None
              /\ DOMAIN fx.result[1] = {"summary", "keywords", "activities"}
              /\ fx.result[1].activities = tool_find_activities(fx.finds[1])
              /\ fx.finds[1].likes = fx.result[1].keywords
              /\ IF AdkFails
                 THEN fx.result[1].keywords = fallback_keywords(fx.prompt, fx.friends)
                 ELSE fx.result[1].keywords =
                          parse_agent_payload(fx.world.session.text).keywords

\* the ADK answered with JSON that is not an object: the heuristic gave the
\* keywords and the search ran once
C27_Witness ==
    /\ Discovered
    /\ fx.world.session.kind = "text"
    /\ fx.world.session.text.json
    /\ ~fx.world.session.text.isdict
    /\ fx.exc = Some("AttributeError")
    /\ fx.result[1].keywords = <<"indie", "Music", "hiking", "   ">>
    /\ Len(fx.finds) = 1

(***************************************************************************)
(* C28: _fallback_keywords (SpecDiscover).                                 *)
(***************************************************************************)
Extracted == fx.op = "_fallback_keywords" /\ fx.result # None

\* the prompt's parts followed by the friends' likes
Gathered == PromptParts(fx.prompt) \o FriendLikes(fx.friends)

\* where a keyword first occurs among the gathered ones, ignoring case
FirstAt(kw) == CHOOSE k \in DOMAIN Gathered :
                   /\ Lower(Gathered[k]) = Lower(kw)
                   /\ \A j \in 1..(k - 1) : Lower(Gathered[j]) # Lower(kw)

\* C28: the result holds the gathered keywords in first-occurrence order,
\* each once ignoring case and in the casing of its first occurrence, cut
\* to 12 entries; no two entries are equal ignoring case.
C28_FallbackKeywords ==
    Extracted =>
        LET found == fx.result[1]
        IN  /\ Len(found) <= 12
            /\ \A i, j \in DOMAIN found : i # j => Lower(found[i]) # Lower(found[j])
            /\ \A i \in DOMAIN found :
                   /\ \E k \in DOMAIN Gathered : Lower(Gathered[k]) = Lower(found[i])
                   /\ found[i] = Gathered[FirstAt(found[i])]
            /\ \A i, j \in DOMAIN found : i < j => FirstAt(found[i]) < FirstAt(found[j])
            /\ \A k \in DOMAIN Gathered :
                   \/ \E i \in DOMAIN found : Lower(found[i]) = Lower(Gathered[k])
                   \/ /\ Len(found) = 12
                      /\ FirstAt(found[12]) < FirstAt(Gathered[k])

\* a prompt with a bullet and a blank part, likes that repeat a keyword of
\* the prompt in other casing, and more than 12 keywords in all
C28_Witness ==
    /\ Extracted
    /\ fx.prompt = <<" Music ", Bullet, "   ">>
    /\ Len(FriendLikes(fx.friends)) > 12
    /\ Len(fx.result[1]) = 12
    /\ fx.result[1][1] = "Music"
    /\ \E k \in DOMAIN Gathered : Gathered[k] = "K1"

\* likes that repeat a keyword of the prompt in other casing: the prompt's
\* casing is kept
C28_WitnessCasing ==
    /\ Extracted
    /\ fx.prompt = <<"music", Comma, "indie">>
    /\ fx.result[1] = <<"music", "indie", "hiking", "   ">>

(***************************************************************************)
(* C29: the Ranker call closes the run of the controller.                  *)
(***************************************************************************)
Ranker == <<"writer">>

\* the run of the controller is over: it returned or an exception left it
RunOver == path = "agentic" /\ pc \in {"done", "raised"}

\* no call follows a Ranker call
RankerIsLast == \A i \in DOMAIN calls : calls[i] = Ranker => i = Len(calls)

\* C29: in every run of the controller the Ranker is invoked exactly once
\* and it is the last tool call: no TasteSource, TasteMerger, CandidateSource
\* or StepReasoner call follows it.
C29_RankerOnceAndLast ==
    path = "agentic" =>
        /\ RankerIsLast
        /\ RunOver => Count(Ranker, calls) = 1

\* the same for the runs that return a response
RankerClosesReturnedRuns ==
    path = "agentic" =>
        /\ RankerIsLast
        /\ Count(Ranker, calls) = (IF pc = "done" THEN 1 ELSE 0)

(***************************************************************************)
(* C30: the Writer entry closes every returned action log.                 *)
(***************************************************************************)
\* the Writer entry of a response with n cards, by the way the run ended
WriterEntry(n) ==
    IF path = "agentic" /\ last.exit \notin {"fallback", "finalize"}
    THEN EntryN("Writer: scored candidates (loop-exit)", n)
    ELSE EntryN("Writer: scored candidates", n)

\* C30: in every PlanResponse, of the fixed pipeline, the fallback, finalize
\* and the loop exit, the last entry of the action log is the Writer entry
\* and the count it reports is the number of cards in candidates.
C30_WriterEntryLast ==
    pc = "done" =>
        LET resp == plan_result[1]
            log == resp.action_log
        IN  /\ log # <<>>
            /\ log[Len(log)] = WriterEntry(Len(resp.candidates))
            /\ \A i \in 1..(Len(log) - 1) :
                   \A n \in 0..Len(Catalog) : log[i] # WriterEntry(n)

\* a fallback taken after an action was executed, returning cards
C30_Witness ==
    /\ Returned
    /\ last.exit = "fallback"
    /\ Len(response[1].candidates) > 0
    /\ Len(response[1].action_log) > 3

(***************************************************************************)
(* C31: the candidates that are ranked and the merged profile.             *)
(***************************************************************************)
\* the controller ranked the held candidates: it returned on finalize or
\* after the loop was left
RankedHeld == Returned /\ last.exit # "fallback"

\* C31: when the controller ranks a non-empty raw_candidates list, on
\* finalize or loop exit, the list is the one the CandidateSource returns
\* for the merged profile it is ranked against.
C31_CandidatesOfRankedProfile ==
    (RankedHeld /\ state.raw_candidates # <<>>) =>
        state.raw_candidates = tool_find_activities(state.merged)

(***************************************************************************)
(* C32: the fallback plan does not depend on the earlier iterations.       *)
(***************************************************************************)
\* the plan of a fallback reached at the first iteration
FirstStepFallback == DefaultPlan(req, SeedState(req), <<ListenerEntry>>)

\* C32: a fallback reached after known actions returns the cards, the
\* merged_vibe and the energy_profile of a fallback reached at iteration 1;
\* its action log is the Listener entry, the Controller entries of the
\* earlier actions and the two fallback entries.
C32_FallbackIgnoresEarlierSteps ==
    FallbackReturned =>
        /\ response[1].candidates = FirstStepFallback.candidates
        /\ response[1].merged_vibe = FirstStepFallback.merged_vibe
        /\ response[1].energy_profile = FirstStepFallback.energy_profile
        /\ response[1].action_log =
              <<ListenerEntry>> \o ControllerEntries
              \o <<Entry("Planner: merged tastes & fetched activities (fallback)"),
                   EntryN("Writer: scored candidates", Len(FirstStepFallback.candidates))>>

\* a fallback at the third iteration, after get_tastes fetched another user
\* and merge_tastes applied overrides
C32_Witness ==
    /\ FallbackReturned
    /\ step = 3
    /\ req.user_ids = <<"u1">>
    /\ state.tastes = Fetch(<<"u2">>)
    /\ Truthy(state.merged)
    /\ state.merged["vibe"] = "outdoors"
    /\ response[1].merged_vibe # "outdoors"
    /\ Len(response[1].candidates) > 0

(***************************************************************************)
(* C33: the ids of the visits recorded by concurrent requests.             *)
(***************************************************************************)
Recording == fx.op = "create_visit"

\* C33: every recorded visit has a distinct id, the n-th recorded visit has
\* id n, under any interleaving of create_visit requests; when a request
\* returns, the hex of its visit is in the hex set of the visiting user.
C33_VisitIdsDistinct ==
    Recording =>
        /\ \A i, j \in DOMAIN fx.INMEM_VISITS :
               i # j => fx.INMEM_VISITS[i].id # fx.INMEM_VISITS[j].id
        /\ \A n \in DOMAIN fx.INMEM_VISITS : fx.INMEM_VISITS[n].id = n
        /\ \A k \in DOMAIN fx.replies :
               fx.replies[k].h3 \in fx.INMEM_USER_HEXES[fx.replies[k].user_id]

\* the part that holds: the hex of a returned visit is in its user's set,
\* and so is the hex of every visit of a worker about to return
HexesKeptWithVisits ==
    Recording =>
        /\ \A k \in DOMAIN fx.replies :
               fx.replies[k].h3 \in fx.INMEM_USER_HEXES[fx.replies[k].user_id]
        /\ \A w \in Workers :
               fx.worker[w].at = "return" =>
                   fx.worker[w].h3_index \in fx.INMEM_USER_HEXES[fx.worker[w].visit.user_id]

(***************************************************************************)
(* C34: list_recent_visits (SpecRecent).                                   *)
(***************************************************************************)
ListedVisits == fx.op = "list_recent_visits" /\ fx.result # None

\* the users asked for: everyone when no id is given
AskedFor(v) == fx.user_id = None \/ v.user_id \in Range(fx.user_id[1])

\* the visits of the users asked for, newest first
TheirVisits == Reversed(SelectSeq(fx.INMEM_VISITS, AskedFor))

\* C34: list_recent_visits returns visits newest first and only those of the
\* users asked for, and it returns their most recent visits however many
\* visits other users recorded afterwards.
C34_RecentVisitsOfUsers ==
    ListedVisits =>
        LET found == fx.result[1]
        IN  /\ \A i, j \in DOMAIN found : i < j => found[i].id > found[j].id
            /\ \A i \in DOMAIN found : AskedFor(found[i])
            /\ found = SubSeq(TheirVisits, 1, Len(found))
            /\ TheirVisits # <<>> => found # <<>>

\* what holds: the result is the visits of the users asked for among the
\* latest 200 of all visits, newest first
RecentWithinWindow ==
    ListedVisits =>
        LET found == fx.result[1]
            n == Len(fx.INMEM_VISITS)
        IN  /\ \A i, j \in DOMAIN found : i < j => found[i].id > found[j].id
            /\ \A i \in DOMAIN found : AskedFor(found[i]) /\ found[i].id > n - 200
            /\ \A k \in DOMAIN fx.INMEM_VISITS :
                   (k > n - 200 /\ AskedFor(fx.INMEM_VISITS[k])) =>
                       \E i \in DOMAIN found : found[i] = fx.INMEM_VISITS[k]

====
